---- MODULE Spec2Model ----
(***************************************************************************)
(* Model of src/model_downloader.py: the path resolver                     *)
(* (normalize_and_validate_path), the retrying fetcher (download_model,    *)
(* download_file, verify_hash) and the models.ini ledger (save_to_ini,     *)
(* save_hf_directory_to_ini, save_directory_to_ini).                       *)
(*                                                                         *)
(* A Python str is a sequence of one-character strings.  A fixed literal   *)
(* that contains no separator ("checkpoints", a host name, a file name)    *)
(* is kept as one element of the sequence.                                 *)
(***************************************************************************)
EXTENDS Integers, Sequences, FiniteSets, TLC

VARIABLES
    platform,       \* which os.path the interpreter binds: "posix" or "nt"
    subdirectory,   \* the subdirectory argument
    pathResult,     \* normalize_and_validate_path: Pending, or its outcome
    url,            \* download_model argument url
    filename,       \* download_model argument filename ("" when not given)
    expected_hash,  \* download_model argument expected_hash ("" when not given)
    max_retries,    \* download_model argument max_retries
    civitaiName,    \* what get_civitai_filename answers for url (None when it fails)
    pc,             \* position inside download_model
    attempt,        \* the loop variable of "for attempt in range(1, max_retries + 1)"
    fname,          \* the local filename once determined
    filepath,       \* the local filepath (download_file may rebind its own copy)
    downloaded_path, \* download_file's own filepath, which it returns
    exc,            \* the exception in flight ("none" when there is none)
    disk,           \* the files that exist: path -> content
    dirs,           \* the directories os.makedirs has created
    ini,            \* models.ini as configparser reads it: a sequence of sections
    clock,          \* datetime.now(), counted in ledger writes
    status,         \* the status download_model returned (NoStatus before it returns)
    file_path,      \* the file path download_model returned
    hist,           \* history of the current call, and the result of the call before it
    mirror,         \* the directory download in progress: its arguments, the remote
                    \* tree it reads and its local variables (NoMirror when none)
    batch,          \* the download_from_ini call in progress: its arguments, the
                    \* sections it read and its local variables (NoBatch when none)
    writers         \* the save_to_ini calls that run at the same time: what each
                    \* was called with, how far it is and the ledger it read
                    \* (NoWriters when none)

pathVars == <<platform, subdirectory, pathResult>>
argVars == <<url, filename, expected_hash, max_retries, civitaiName, mirror, batch, writers>>
callVars == <<pc, attempt, fname, filepath, downloaded_path, exc, status, file_path, hist>>
worldVars == <<disk, dirs, ini, clock>>

vars == <<platform, subdirectory, pathResult, url, filename, expected_hash, max_retries,
          civitaiName, pc, attempt, fname, filepath, downloaded_path, exc, disk, dirs, ini,
          clock,
          status, file_path, hist, mirror, batch, writers>>

\* ------------------------------------------------------------------ str

\* Bound: longest subdirectory string enumerated for the path resolver.
MaxPathLen == 4

\* The characters subdirectory strings are drawn from: a name character, the
\* dot, both separators, the drive colon and whitespace.
PathChars == {"a", ".", "/", "\\", ":", " "}

RECURSIVE StringsUpTo(_, _)
StringsUpTo(chars, n) ==
    IF n = 0 THEN {<<>>}
    ELSE LET shorter == StringsUpTo(chars, n - 1)
         IN  shorter \cup {Append(s, c) : s \in {t \in shorter : Len(t) = n - 1}, c \in chars}

\* s.startswith(p)
StartsWith(s, p) == Len(s) >= Len(p) /\ SubSeq(s, 1, Len(p)) = p

\* p in s (substring test)
Contains(s, p) == \E i \in 1..(Len(s) - Len(p) + 1) : SubSeq(s, i, i + Len(p) - 1) = p

\* s.replace(old, new) for single characters
RECURSIVE Replace(_, _, _)
Replace(s, old, new) ==
    IF s = <<>> THEN <<>>
    ELSE <<IF Head(s) = old THEN new ELSE Head(s)>> \o Replace(Tail(s), old, new)

\* s.lstrip(c) / s.rstrip(c) for one character c
RECURSIVE LStrip(_, _)
LStrip(s, c) == IF s # <<>> /\ Head(s) = c THEN LStrip(Tail(s), c) ELSE s

RECURSIVE RStrip(_, _)
RStrip(s, c) ==
    IF s # <<>> /\ s[Len(s)] = c THEN RStrip(SubSeq(s, 1, Len(s) - 1), c) ELSE s

\* s.strip(): whitespace removed at both ends
Strip(s) == RStrip(LStrip(s, " "), " ")

\* s.split(sep): the list of the pieces between separators (never empty)
RECURSIVE Split(_, _)
Split(s, sep) ==
    IF ~(\E i \in 1..Len(s) : s[i] = sep) THEN <<s>>
    ELSE LET i == CHOOSE k \in 1..Len(s) : s[k] = sep /\ \A j \in 1..(k - 1) : s[j] # sep
         IN  <<SubSeq(s, 1, i - 1)>> \o Split(SubSeq(s, i + 1, Len(s)), sep)

\* sep.join(parts)
RECURSIVE Join(_, _)
Join(parts, sep) ==
    IF parts = <<>> THEN <<>>
    ELSE IF Len(parts) = 1 THEN parts[1]
    ELSE parts[1] \o <<sep>> \o Join(Tail(parts), sep)

\* Python's None where a str is expected
None == <<"None">>

DotDot == <<".", ".">>
Dot == <<".">>

\* ------------------------------------------------------------------ os.path

\* posixpath.isabs / ntpath.isabs
IsAbs(plat, s) ==
    IF plat = "posix" THEN StartsWith(s, <<"/">>)
    ELSE LET h == Replace(SubSeq(s, 1, IF Len(s) < 3 THEN Len(s) ELSE 3), "/", "\\")
         IN  StartsWith(h, <<"\\">>)
             \/ (Len(h) = 3 /\ h[2] = ":" /\ h[3] = "\\")

\* The component loop of posixpath.normpath
RECURSIVE PosixComps(_, _, _)
PosixComps(comps, acc, initial) ==
    IF comps = <<>> THEN acc
    ELSE LET c == Head(comps)
         IN  IF c = <<>> \/ c = Dot THEN PosixComps(Tail(comps), acc, initial)
             ELSE IF c # DotDot
                     \/ (initial = 0 /\ acc = <<>>)
                     \/ (acc # <<>> /\ acc[Len(acc)] = DotDot)
                  THEN PosixComps(Tail(comps), Append(acc, c), initial)
             ELSE IF acc # <<>>
                  THEN PosixComps(Tail(comps), SubSeq(acc, 1, Len(acc) - 1), initial)
             ELSE PosixComps(Tail(comps), acc, initial)

PosixNormpath(s) ==
    IF s = <<>> THEN Dot
    ELSE LET initial == IF ~StartsWith(s, <<"/">>) THEN 0
                        ELSE IF StartsWith(s, <<"/", "/">>) /\ ~StartsWith(s, <<"/", "/", "/">>)
                             THEN 2 ELSE 1
             body == Join(PosixComps(Split(s, "/"), <<>>, initial), "/")
             full == (IF initial = 2 THEN <<"/", "/">>
                      ELSE IF initial = 1 THEN <<"/">> ELSE <<>>) \o body
         IN  IF full = <<>> THEN Dot ELSE full

\* The component loop of ntpath.normpath; rooted says the prefix ends in a separator
RECURSIVE NtComps(_, _, _)
NtComps(comps, acc, rooted) ==
    IF comps = <<>> THEN acc
    ELSE LET c == Head(comps)
         IN  IF c = <<>> \/ c = Dot THEN NtComps(Tail(comps), acc, rooted)
             ELSE IF c = DotDot
                  THEN IF acc # <<>> /\ acc[Len(acc)] # DotDot
                       THEN NtComps(Tail(comps), SubSeq(acc, 1, Len(acc) - 1), rooted)
                       ELSE IF acc = <<>> /\ rooted
                            THEN NtComps(Tail(comps), acc, rooted)
                            ELSE NtComps(Tail(comps), Append(acc, c), rooted)
             ELSE NtComps(Tail(comps), Append(acc, c), rooted)

\* ntpath.normpath for paths without a UNC or device prefix (those are absolute
\* and rejected before normpath is reached)
NtNormpath(s) ==
    LET p == Replace(s, "/", "\\")
        drive == IF Len(p) >= 2 /\ p[2] = ":" THEN SubSeq(p, 1, 2) ELSE <<>>
        rest == SubSeq(p, Len(drive) + 1, Len(p))
        rooted == StartsWith(rest, <<"\\">>)
        prefix == IF rooted THEN Append(drive, "\\") ELSE drive
        comps == NtComps(Split(LStrip(rest, "\\"), "\\"), <<>>, rooted)
    IN  IF prefix = <<>> /\ comps = <<>> THEN Dot
        ELSE prefix \o Join(comps, "\\")

Normpath(plat, s) == IF plat = "posix" THEN PosixNormpath(s) ELSE NtNormpath(s)

\* ------------------------------------------------------------------ PathResolver

\* The default segment returned for empty input
Checkpoints == <<"checkpoints">>

Accept(p) == [ok |-> TRUE, path |-> p, error |-> "none"]
Reject(e) == [ok |-> FALSE, path |-> <<>>, error |-> e]

\* No call of normalize_and_validate_path has returned yet
Pending == [ok |-> FALSE, path |-> <<>>, error |-> "pending"]

\* "if not subdirectory or not subdirectory.strip()"
NeverBlank(s) == FALSE
IsBlank(s) == s = <<>> \/ Strip(s) = <<>>

\* "len(subdirectory) >= 2 and subdirectory[1] == ':'" (Python indexes from 0)
HasDriveColon(s) == Len(s) >= 2 /\ s[2] = ":"

\* The check made before normalization: "'..' in subdirectory"
NoRawParentCheck(s) == FALSE
HasRawParentRef(s) == Contains(s, DotDot)

\* normpath, backslashes to slashes, leading and trailing slashes removed
NormalizedForm(plat, s) ==
    RStrip(LStrip(Replace(Normpath(plat, s), "\\", "/"), "/"), "/")

\* The loop over normalized.split('/'): some part is empty
NoEmptyPartCheck(n) == FALSE
HasEmptyPart(n) == \E i \in 1..Len(Split(n, "/")) : Split(n, "/")[i] = <<>>

NormalizeAndValidatePath(plat, s) ==
    IF IsBlank(s) THEN Accept(Checkpoints)
    ELSE IF IsAbs(plat, s) THEN Reject("absolute")
    ELSE IF HasDriveColon(s) THEN Reject("drive")
    ELSE IF HasRawParentRef(s) THEN Reject("parent")
    ELSE LET n == NormalizedForm(plat, s)
         IN  IF n = <<>> THEN Accept(Checkpoints)
             ELSE IF Contains(n, DotDot) THEN Reject("parent")
             ELSE IF HasEmptyPart(n) THEN Reject("empty_part")
             ELSE Accept(n)

\* ------------------------------------------------------------------ target paths

\* self.base_path (folder_paths.models_dir): an absolute directory of the platform
BasePath(plat) == IF plat = "posix" THEN <<"/", "models">> ELSE <<"C", ":", "\\", "models">>

Sep(plat) == IF plat = "posix" THEN "/" ELSE "\\"

\* os.path.join(a, p) for an absolute directory a
OsPathJoin(plat, a, p) ==
    IF plat = "posix"
    THEN IF StartsWith(p, <<"/">>) THEN p
         ELSE IF a = <<>> \/ a[Len(a)] = "/" THEN a \o p
         ELSE a \o <<"/">> \o p
    ELSE IF HasDriveColon(p) THEN p
         ELSE IF p # <<>> /\ p[1] \in {"/", "\\"} THEN SubSeq(a, 1, 2) \o p
         ELSE IF a = <<>> \/ a[Len(a)] \in {"/", "\\", ":"} THEN a \o p
         ELSE a \o <<"\\">> \o p

\* "target_dir = os.path.join(self.base_path, normalized_subdir)"
TargetDir(plat, normalized) == OsPathJoin(plat, BasePath(plat), normalized)

\* The location a path names once "." and ".." segments are resolved lexically
Location(plat, p) == Normpath(plat, p)

\* p names a location strictly below the models root
StrictlyUnderRoot(plat, p) ==
    LET root == BasePath(plat)
        loc == Location(plat, p)
    IN  /\ StartsWith(loc, Append(root, Sep(plat)))
        /\ Len(loc) > Len(root) + 1

\* p names the models root or a location below it
WithinRoot(plat, p) ==
    Location(plat, p) = BasePath(plat) \/ StrictlyUnderRoot(plat, p)

\* os.path.basename / os.path.dirname
LastSepIndex(plat, p) ==
    LET seps == IF plat = "posix" THEN {"/"} ELSE {"/", "\\", ":"}
        at == {i \in 1..Len(p) : p[i] \in seps}
    IN  IF at = {} THEN 0 ELSE CHOOSE i \in at : \A j \in at : j <= i

Basename(plat, p) == SubSeq(p, LastSepIndex(plat, p) + 1, Len(p))

\* "filepath = os.path.join(target_dir, filename)"
FilePath(plat, normalized, name) == OsPathJoin(plat, TargetDir(plat, normalized), name)

\* "[x for x in path.split(sep) if x]"
RECURSIVE NonEmptyParts(_)
NonEmptyParts(parts) ==
    IF parts = <<>> THEN <<>>
    ELSE (IF Head(parts) = <<>> THEN <<>> ELSE <<Head(parts)>>) \o NonEmptyParts(Tail(parts))

\* The components of abspath(path) for an absolute path: empty and "."
\* components are dropped and ".." removes the component before it, but
\* never the first `drive` components (the drive of an nt path)
RECURSIVE AbsParts(_, _, _)
AbsParts(parts, acc, drive) ==
    IF parts = <<>> THEN acc
    ELSE IF Head(parts) = <<>> \/ Head(parts) = Dot THEN AbsParts(Tail(parts), acc, drive)
    ELSE IF Head(parts) = DotDot
    THEN AbsParts(Tail(parts),
                  IF Len(acc) > drive THEN SubSeq(acc, 1, Len(acc) - 1) ELSE acc, drive)
    ELSE AbsParts(Tail(parts), Append(acc, Head(parts)), drive)

\* len(commonprefix([start_list, path_list]))
RECURSIVE CommonPrefixLen(_, _)
CommonPrefixLen(start_list, path_list) ==
    IF start_list = <<>> \/ path_list = <<>> \/ Head(start_list) # Head(path_list) THEN 0
    ELSE 1 + CommonPrefixLen(Tail(start_list), Tail(path_list))

\* p is base_path, one separator and a normalised relative path: names
\* separated by single platform separators, every dot inside a name
PlainBelowBase(plat, p) ==
    LET from == Len(BasePath(plat)) + 2
        marks == {"/", "\\", ":", " "}
    IN  /\ StartsWith(p, Append(BasePath(plat), Sep(plat)))
        /\ Len(p) >= from
        /\ p[from] \notin marks \cup {"."}
        /\ p[Len(p)] \notin marks \cup {"."}
        /\ \A k \in (from + 1)..(Len(p) - 1) :
              /\ p[k] \in marks => p[k] = Sep(plat) /\ p[k + 1] \notin marks \cup {"."}
              /\ p[k] = "." => p[k - 1] \notin marks \cup {"."} /\ p[k + 1] \notin marks \cup {"."}

\* os.path.relpath(filepath, self.base_path): both paths are normalised and
\* split, the common leading components are dropped, and one ".." is written
\* for every component of base_path that is left (both paths are absolute
\* and, on nt, on the same drive).  For a normalised path below base_path
\* that is the path after base_path and the separator.
RelPath(plat, p) ==
    IF PlainBelowBase(plat, p) THEN SubSeq(p, Len(BasePath(plat)) + 2, Len(p))
    ELSE LET drive == IF plat = "posix" THEN 0 ELSE 1
             start_list == NonEmptyParts(Split(BasePath(plat), Sep(plat)))
             path_list == AbsParts(Split(IF plat = "posix" THEN p ELSE Replace(p, "/", "\\"),
                                         Sep(plat)), <<>>, drive)
             i == CommonPrefixLen(start_list, path_list)
             rel_list == [j \in 1..(Len(start_list) - i) |-> DotDot]
                         \o SubSeq(path_list, i + 1, Len(path_list))
         IN  IF rel_list = <<>> THEN Dot ELSE Join(rel_list, Sep(plat))

\* ------------------------------------------------------------------ Verifier

\* File contents: two complete bodies and a partially written one
Contents == {"c1", "c2"}
Partial == "partial"

\* hashlib.sha256(...).hexdigest(): lower-case hex, one digest per content
Sha256(c) == IF c = "c1" THEN "ab1" ELSE IF c = "c2" THEN "ab2" ELSE "ab0"

\* str.lower() on the digests used here
Lower(h) == IF h = "AB1" THEN "ab1" ELSE IF h = "AB2" THEN "ab2" ELSE h

\* The methods class ModelDownloader defines.  The statements that hash a file
\* follow download_directory's return without a "def" of their own, so the
\* class has no attribute calculate_sha256.
ModelDownloaderMethods ==
    {"__init__", "load_config", "normalize_ini_path", "save_to_ini",
     "save_hf_directory_to_ini", "save_directory_to_ini", "INPUT_TYPES",
     "detect_url_type", "parse_huggingface_directory_url",
     "check_directory_structure_changed", "get_directory_files",
     "extract_filename_from_url", "get_civitai_filename",
     "normalize_and_validate_path", "download_directory", "verify_hash",
     "download_file", "download_model"}

\* What the hashing statements compute: the digest, or None when the file
\* cannot be opened
CalculateSha256(dsk, path) ==
    IF path \in DOMAIN dsk THEN Sha256(dsk[path]) ELSE "None"

\* A verifier that accepts every file
VerifyAccepts(dsk, path, expected) == "true"

\* verify_hash(filepath, expected_hash): "true", "false", or "raise" when the
\* call self.calculate_sha256 finds no such attribute (AttributeError)
VerifyHash(dsk, path, expected) ==
    IF expected = "" THEN "true"
    ELSE IF "calculate_sha256" \notin ModelDownloaderMethods THEN "raise"
    ELSE LET actual == CalculateSha256(dsk, path)
         IN  IF actual = "None" THEN "false"
             ELSE IF Lower(actual) = Lower(expected) THEN "true"
             ELSE "false"

\* ------------------------------------------------------------------ URLs

\* A URL is a sequence whose elements are "/", "?", "." and the words between
HfHost == "huggingface.co"
CivitaiHost == "civitai.com"

\* detect_url_type(url)
DetectUrlType(u) ==
    IF Contains(u, <<HfHost>>)
    THEN IF Contains(u, <<"/", "tree", "/">>) THEN "huggingface_directory"
         ELSE "huggingface"
    ELSE IF Contains(u, <<CivitaiHost>>) THEN "civitai"
    ELSE "unknown"

\* The keys of config.ini's [API_KEYS] that __init__ copies to the object
ApiKeys == {"huggingface_token", "civitai_api_key"}

\* download_file's "headers": the key sent as "Authorization: Bearer ..." with a
\* request of url_type, when config is the set of keys config.ini gives a value
Authorization(url_type, config) ==
    IF url_type = "huggingface" /\ "huggingface_token" \in config THEN "huggingface_token"
    ELSE IF url_type = "civitai" /\ "civitai_api_key" \in config THEN "civitai_api_key"
    ELSE "none"

\* The first index at or after i where u holds c (Len(u) + 1 when none)
FirstAt(u, c, i) ==
    LET at == {k \in i..Len(u) : u[k] = c}
    IN  IF at = {} THEN Len(u) + 1 ELSE CHOOSE k \in at : \A j \in at : k <= j

\* re.search(r'/resolve/[^/]+/(.+?)(?:\?|$)', url): group 1, or None
ResolveMatch(u) ==
    LET starts == {i \in 1..Len(u) :
                     /\ i + 4 <= Len(u) + 1
                     /\ SubSeq(u, i, i + 2) = <<"/", "resolve", "/">>
                     /\ u[i + 3] # "/"
                     /\ FirstAt(u, "/", i + 3) + 1 <= Len(u)}
    IN  IF starts = {} THEN None
        ELSE LET i == CHOOSE k \in starts : \A j \in starts : k <= j
                 from == FirstAt(u, "/", i + 3) + 1
                 to == FirstAt(u, "?", from + 1) - 1
             IN  SubSeq(u, from, to)

\* os.path.basename(urlparse(url).path): the path ends at "?" or "#"
UrlPathBasename(u) ==
    LET scheme == IF Len(u) >= 1 /\ u[1] \in {"https://", "http://"} THEN 2 ELSE 1
        start == FirstAt(u, "/", scheme + 1)
        stop == IF FirstAt(u, "?", start) < FirstAt(u, "#", start)
                THEN FirstAt(u, "?", start) ELSE FirstAt(u, "#", start)
        path == SubSeq(u, start, stop - 1)
    IN  Basename("posix", path)

\* extract_filename_from_url(url, url_type); api is get_civitai_filename's answer
ExtractFilenameFromUrl(u, urlType, api) ==
    IF urlType = "huggingface" /\ ResolveMatch(u) # None
    THEN LET parts == Split(ResolveMatch(u), "/") IN parts[Len(parts)]
    ELSE IF urlType = "civitai" THEN api
    ELSE UrlPathBasename(u)

DefaultFilename == <<"downloaded_model", ".", "safetensors">>

\* "if not filename: filename = extract...; if not filename: filename = default"
DetermineFilename(given, u, urlType, api) ==
    IF given # <<>> THEN given
    ELSE LET e == ExtractFilenameFromUrl(u, urlType, api)
         IN  IF e = None \/ e = <<>> THEN DefaultFilename ELSE e

\* ------------------------------------------------------------------ Ledger

\* models.ini as configparser holds it after config.read: a sequence of
\* sections [name, opts], opts a function from option name to value

HasSection(cfg, n) == \E i \in 1..Len(cfg) : cfg[i].name = n

SectionIndex(cfg, n) == CHOOSE i \in 1..Len(cfg) : cfg[i].name = n

HasOption(cfg, n, k) == HasSection(cfg, n) /\ k \in DOMAIN cfg[SectionIndex(cfg, n)].opts

Get(cfg, n, k) == cfg[SectionIndex(cfg, n)].opts[k]

\* str(n) for a natural number
RECURSIVE DecimalStr(_)
DecimalStr(n) ==
    LET digit == <<"0", "1", "2", "3", "4", "5", "6", "7", "8", "9">>
    IN  IF n < 10 THEN <<digit[n + 1]>>
        ELSE Append(DecimalStr(n \div 10), digit[(n % 10) + 1])

\* A percent-encoded space: a "%" that is followed neither by "%" nor by "("
PercentSpace == "%20"

\* The value holds a "%" that BasicInterpolation rejects: config.set raises
\* ValueError for it and config.get InterpolationSyntaxError
HasBarePercent(v) == \E i \in 1..Len(v) : v[i] = PercentSpace

\* The value config.read gives back for a value config.write wrote: the text
\* after "key = " with surrounding whitespace removed
IniValue(v) == Strip(v)

\* The "while config.has_section(section_name)" loop: the first of base,
\* base_1, base_2, ... that is free or whose option key already holds val.
\* counter 0 stands for the unsuffixed name.
PickUnsuffixed(cfg, base, counter, key, val) == base
RECURSIVE PickFresh(_, _, _, _, _)
PickFresh(cfg, base, counter, key, val) ==
    LET name == IF counter = 0 THEN base ELSE base \o <<"_">> \o DecimalStr(counter)
    IN  IF ~HasSection(cfg, name) THEN name
        ELSE PickFresh(cfg, base, counter + 1, key, val)
RECURSIVE PickSection(_, _, _, _, _)
PickSection(cfg, base, counter, key, val) ==
    LET name == IF counter = 0 THEN base ELSE base \o <<"_">> \o DecimalStr(counter)
    IN  IF ~HasSection(cfg, name) THEN name
        ELSE IF HasOption(cfg, name, key) /\ Get(cfg, name, key) = val THEN name
        ELSE PickSection(cfg, base, counter + 1, key, val)

\* A write that forgets what was read: the file holds the one section only
WriteSectionAlone(cfg, name, written) ==
    <<[name |-> name, opts |-> [k \in DOMAIN written |-> IniValue(written[k])]]>>

\* add_section when missing, config.set for every option of written, then
\* config.write: options not set again keep their old value
WriteSection(cfg, name, written) ==
    LET stored == [k \in DOMAIN written |-> IniValue(written[k])]
    IN  IF HasSection(cfg, name)
        THEN [cfg EXCEPT ![SectionIndex(cfg, name)].opts = stored @@ @]
        ELSE Append(cfg, [name |-> name, opts |-> stored])

\* save_to_ini(url, subdirectory, filename, filepath, expected_hash)
SaveToIni(cfg, plat, u, subdir, name, path, hash, now) ==
    LET section == PickSection(cfg, Replace(name, ".", "_"), 0, "url", u)
        fields == [url |-> u, subdirectory |-> subdir, filename |-> name,
                   filepath |-> RelPath(plat, path), timestamp |-> DecimalStr(now)]
    IN  WriteSection(cfg, section,
                     IF hash # "" THEN fields @@ [hash |-> <<hash>>] ELSE fields)

\* model_id.split('/')[-1]
LastSegment(id) == Split(id, "/")[Len(Split(id, "/"))]

\* save_hf_directory_to_ini(model_id, save_folder, revision, exclude_files, file_count)
SaveHfDirectoryToIni(cfg, model_id, save_folder, revision, exclude_files, file_count, now) ==
    LET base == <<"HF_DIR_">> \o Replace(Replace(LastSegment(model_id), ".", "_"), "-", "_")
        section == PickSection(cfg, base, 0, "model_id", model_id)
    IN  WriteSection(cfg, section,
                     [type |-> <<"huggingface_directory">>, model_id |-> model_id,
                      save_folder |-> save_folder, revision |-> revision,
                      exclude_files |-> exclude_files,
                      file_count |-> DecimalStr(file_count),
                      timestamp |-> DecimalStr(now)])

\* save_directory_to_ini(url, subdirectory, repo_id, revision, directory_path, file_count)
SaveDirectoryToIni(cfg, u, subdir, repo_id, revision, directory_path, file_count, now) ==
    LET dir_name == IF directory_path # <<>> THEN LastSegment(directory_path)
                    ELSE LastSegment(repo_id)
        base == <<"DIR_">> \o Replace(Replace(dir_name, ".", "_"), "/", "_")
        section == PickSection(cfg, base, 0, "url", u)
    IN  WriteSection(cfg, section,
                     [type |-> <<"directory">>, url |-> u, subdirectory |-> subdir,
                      repo_id |-> repo_id, revision |-> revision,
                      directory_path |-> IF directory_path # <<>> THEN directory_path
                                         ELSE <<"(root)">>,
                      file_count |-> DecimalStr(file_count),
                      timestamp |-> DecimalStr(now)])

\* The kind and the source a section records
SectionKind(sec) == IF "type" \in DOMAIN sec.opts THEN sec.opts["type"] ELSE <<"file">>
SectionSource(sec) ==
    IF "model_id" \in DOMAIN sec.opts THEN sec.opts["model_id"]
    ELSE IF "url" \in DOMAIN sec.opts THEN sec.opts["url"]
    ELSE None

\* ------------------------------------------------------------------ SpecPath

Platforms == {"posix", "nt"}

NoStatus == [kind |-> "none", attempts |-> 0, cause |-> "none"]
\* transfers, failed, saves, removed: download_file calls, those that raised,
\* save_to_ini calls and os.remove calls of the current download_model call;
\* calls: download_model calls started; iniAtCall, diskAtCall: the ledger and
\* the files when the current call started; delivered: what the last
\* download_file call of the current call did ("none" before any, "failed", or
\* the content it wrote); contents: every content a download_file call of the
\* current call wrote in full; urls: the URLs a GET for a file was sent to;
\* unsaved: the exceptions save_to_ini calls of the current call raised;
\* first*: what the call before returned; upsert:
\* the last ledger upsert made on its own (kind, source, the identifier its
\* name gives, the option that holds the source, the fields passed, and
\* models.ini before it)
NoHist == [transfers |-> 0, failed |-> 0, saves |-> 0, removed |-> 0, calls |-> 0,
           iniAtCall |-> <<>>, diskAtCall |-> <<>>, delivered |-> "none",
           contents |-> {}, urls |-> {}, unsaved |-> {}, upsert |-> [kind |-> "none"],
           first |-> NoStatus, firstPath |-> <<>>, firstTransfers |-> 0]

\* No directory download is in progress
NoMirror == [kind |-> "none"]

\* No download_from_ini call is in progress
NoBatch == [kind |-> "none"]
NoWriters == [kind |-> "none"]

\* The download and ledger state while only the path resolver is exercised
Idle ==
    /\ url = <<>> /\ filename = <<>> /\ expected_hash = "" /\ max_retries = 0
    /\ civitaiName = None /\ mirror = NoMirror /\ batch = NoBatch /\ writers = NoWriters
    /\ pc = "idle" /\ attempt = 0 /\ fname = <<>> /\ filepath = <<>> /\ exc = "none"
    /\ downloaded_path = <<>>
    /\ disk = <<>> /\ dirs = {} /\ ini = <<>> /\ clock = 0
    /\ status = NoStatus /\ file_path = <<>> /\ hist = NoHist

PathInit ==
    /\ platform \in Platforms
    /\ subdirectory \in StringsUpTo(PathChars, MaxPathLen)
    /\ pathResult = Pending
    /\ Idle

\* One call of normalize_and_validate_path(subdirectory)
Resolve ==
    /\ pathResult = Pending
    /\ pathResult' = NormalizeAndValidatePath(platform, subdirectory)
    /\ UNCHANGED <<platform, subdirectory, argVars, callVars, worldVars>>

PathNext == Resolve

SpecPath == PathInit /\ [][PathNext]_vars

\* ------------------------------------------------------------------ RetryingFetcher

\* Bounds: the largest max_retries tried, and the number of download_model
\* calls made one after the other with the same arguments
MaxRetries == 3
MaxCalls == 2

EmptyUrl == <<>>
UnknownUrl == <<"https://", "example.com", "/", "m", ".", "b">>
HfUrl == <<"https://", HfHost, "/", "org", "/", "repo", "/", "resolve", "/", "main",
           "/", "m", ".", "b">>
CivitaiUrl == <<"https://", CivitaiHost, "/", "api", "/", "download", "/", "models",
                "/", "1">>

HfQueryUrl == <<"https://", HfHost, "/", "org", "/", "repo", "/", "resolve", "/", "main",
                "/", "d", "/", "q", ".", "b", "?", "download=true">>
PercentUrl == <<"https://", HfHost, "/", "org", "/", "repo", "/", "resolve", "/", "main",
                "/", "my", PercentSpace, "m", ".", "b">>

\* A URL on another host whose path holds the name of a provider's host
ForeignUrl == <<"https://", "example.com", "/", HfHost, "/", "m", ".", "b">>

UrlInputs == {EmptyUrl, UnknownUrl, HfUrl, CivitaiUrl, HfQueryUrl, PercentUrl, ForeignUrl}
SubdirInputs == {<<"a">>, <<>>, <<"a", "/", ".", ".">>}
\* "../../x.b": a filename that climbs out of the directory it is joined to
ClimbingFilename == <<".", ".", "/", ".", ".", "/", "x", ".", "b">>
FilenameInputs == {<<>>, <<"x", ".", "b">>, ClimbingFilename}
HashInputs == {"", "ab1", "AB1"}
CivitaiNames == {None, <<"v", ".", "b">>}

\* os.remove(path)
Remove(dsk, path) == [q \in (DOMAIN dsk) \ {path} |-> dsk[q]]

\* open(path, 'wb') and the writes that completed: the file now holds c
WriteFile(dsk, path, c) == (path :> c) @@ dsk

\* "for attempt in range(1, max_retries + 1)": the values attempt takes
AttemptRangeFromZero(max) == 0..max
AttemptRange(max) == 1..max

\* "if attempt < max_retries": retry rather than return the error
AttemptsRemain(a, max) == a < max

\* download_file's "except": "if os.path.exists(filepath): os.remove(filepath)"
CleanupSkipped(dsk, path) == dsk
CleanupFailedDownload(dsk, path) == IF path \in DOMAIN dsk THEN Remove(dsk, path) ELSE dsk

\* download_file: the Content-Disposition name replaces an empty final component
RealizedPath(plat, path, urlType, suggested) ==
    IF urlType = "civitai" /\ suggested # None /\ Basename(plat, path) = <<>>
    THEN OsPathJoin(plat, SubSeq(path, 1, LastSepIndex(plat, path) - 1), suggested)
    ELSE path

\* The target the arguments name, when the subdirectory is accepted
TargetOf(plat, subdir, given, u, api) ==
    FilePath(plat, NormalizeAndValidatePath(plat, subdir).path,
             DetermineFilename(given, u, DetectUrlType(u), api))

IsError(st) == st.kind \in {"err_empty_url", "err_unsupported", "err_invalid_path",
                            "err_hash", "err_download", "err_unknown"}
IsSuccess(st) == st.kind \in {"ok_exists", "ok_downloaded"}

DownloadInit ==
    /\ platform \in Platforms
    /\ subdirectory \in SubdirInputs
    /\ pathResult = Pending
    /\ url \in UrlInputs
    /\ filename \in FilenameInputs
    /\ expected_hash \in HashInputs
    /\ max_retries \in 0..MaxRetries
    /\ civitaiName \in IF DetectUrlType(url) = "civitai" /\ filename = <<>>
                       THEN CivitaiNames ELSE {None}
    /\ mirror = NoMirror /\ batch = NoBatch /\ writers = NoWriters
    /\ pc = "idle" /\ attempt = 0 /\ fname = <<>> /\ filepath = <<>> /\ exc = "none"
    /\ downloaded_path = <<>>
    /\ \E pre \in {"absent"} \cup Contents :
         disk = IF pre = "absent" \/ ~NormalizeAndValidatePath(platform, subdirectory).ok
                THEN <<>>
                ELSE TargetOf(platform, subdirectory, filename, url, civitaiName) :> pre
    /\ dirs = {} /\ ini = <<>> /\ clock = 0
    /\ status = NoStatus /\ file_path = <<>> /\ hist = NoHist

\* "return (status, path)"
Return(kind, cause, path) ==
    /\ pc' = "done"
    /\ status' = [kind |-> kind, attempts |-> max_retries, cause |-> cause]
    /\ file_path' = path

\* "continue", or the end of an except clause that did not return: the next
\* value of the range, or line 998 when the range is used up
NextIteration ==
    IF attempt + 1 \in AttemptRange(max_retries)
    THEN /\ attempt' = attempt + 1
         /\ pc' = "check"
         /\ UNCHANGED <<status, file_path>>
    ELSE /\ Return("err_unknown", "none", <<>>)
         /\ UNCHANGED attempt

\* What a save_to_ini call raises: ValueError when config.set is given a value
\* with a "%" it rejects, OSError when models.ini cannot be written (wrote
\* FALSE), "none" when it returns
SaveRaises(u, subdir, name, path, wrote) ==
    IF \E v \in {u, subdir, name, path} : HasBarePercent(v) THEN "ValueError"
    ELSE IF ~wrote THEN "OSError"
    ELSE "none"

\* The try/except around save_to_ini: the call is made; when it raises the
\* warning is printed and models.ini stays as it was
ForgetsToRecord(path, wrote) == UNCHANGED <<ini, clock, hist>>
RecordProvenance(path, wrote) ==
    LET raised == SaveRaises(url, subdirectory, fname, RelPath(platform, path), wrote)
    IN  /\ ini' = IF raised = "none"
                  THEN SaveToIni(ini, platform, url, subdirectory, fname, path,
                                 expected_hash, clock)
                  ELSE ini
        /\ clock' = IF raised = "none" THEN clock + 1 ELSE clock
        /\ hist' = [hist EXCEPT !.saves = @ + 1,
                                !.unsaved = IF raised = "none" THEN @ ELSE @ \cup {raised}]

\* "except ValueError as e": normalize_and_validate_path raised
PathErrorSwallowed(r) == FALSE
PathRejected(r) == ~r.ok

\* download_model(u, subdir, given, ...) for a single-file URL, from its entry
\* to the first iteration of the retry loop; api is what get_civitai_filename
\* answers
EnterDownloadModel(u, subdir, given, api) ==
    LET r == NormalizeAndValidatePath(platform, subdir)
        name == DetermineFilename(given, u, DetectUrlType(u), api)
    IN  IF u = <<>>
        THEN /\ Return("err_empty_url", "none", <<>>)
             /\ UNCHANGED <<pathResult, attempt, fname, filepath, dirs>>
        ELSE IF DetectUrlType(u) = "unknown"
        THEN /\ Return("err_unsupported", "none", <<>>)
             /\ UNCHANGED <<pathResult, attempt, fname, filepath, dirs>>
        ELSE IF PathRejected(r)
        THEN /\ pathResult' = r
             /\ Return("err_invalid_path", r.error, <<>>)
             /\ UNCHANGED <<attempt, fname, filepath, dirs>>
        ELSE /\ pathResult' = r
             /\ fname' = name
             /\ filepath' = FilePath(platform, r.path, name)
             /\ dirs' = dirs \cup {TargetDir(platform, r.path)}
             /\ IF AttemptRange(max_retries) # {}
                THEN /\ attempt' = CHOOSE a \in AttemptRange(max_retries) :
                                      \A b \in AttemptRange(max_retries) : a <= b
                     /\ pc' = "check"
                     /\ status' = NoStatus
                     /\ file_path' = <<>>
                ELSE /\ Return("err_unknown", "none", <<>>)
                     /\ UNCHANGED attempt

\* One call of download_model with the arguments of the state. A "/tree/" URL
\* is handed to download_directory (lines 901-902): see MirrorCall.
DownloadModelCall ==
    /\ pc \in {"idle", "done"}
    /\ hist.calls < MaxCalls
    /\ DetectUrlType(url) # "huggingface_directory"
    /\ hist' = [NoHist EXCEPT !.calls = hist.calls + 1, !.iniAtCall = ini,
                              !.diskAtCall = disk, !.first = status,
                              !.firstPath = file_path,
                              !.firstTransfers = hist.transfers]
    /\ exc' = "none"
    /\ UNCHANGED <<platform, subdirectory, argVars, disk, ini, clock, downloaded_path>>
    /\ EnterDownloadModel(url, subdirectory, filename, civitaiName)

\* The start of one loop iteration: "if os.path.exists(filepath)"
CheckExisting ==
    /\ pc = "check"
    /\ UNCHANGED <<pathVars, argVars, attempt, fname, filepath, downloaded_path, dirs>>
    /\ IF filepath \in DOMAIN disk
       THEN LET v == VerifyHash(disk, filepath, expected_hash)
            IN  IF v = "true"
                THEN /\ \E wrote \in BOOLEAN : RecordProvenance(filepath, wrote)
                     /\ Return("ok_exists", "none", filepath)
                     /\ UNCHANGED <<disk, exc>>
                ELSE IF v = "false"
                THEN /\ disk' = Remove(disk, filepath)
                     /\ hist' = [hist EXCEPT !.removed = @ + 1]
                     /\ pc' = "transfer"
                     /\ UNCHANGED <<exc, ini, clock, status, file_path>>
                ELSE /\ exc' = "AttributeError"
                     /\ pc' = "except"
                     /\ UNCHANGED <<disk, ini, clock, status, file_path, hist>>
       ELSE /\ pc' = "transfer"
            /\ UNCHANGED <<disk, exc, ini, clock, status, file_path, hist>>

\* download_file up to its return or to the point where an exception is raised
\* inside its try: by requests.get, by raise_for_status, or by a write
Transfer ==
    /\ pc = "transfer"
    /\ UNCHANGED <<pathVars, argVars, attempt, fname, filepath, dirs, ini, clock, status,
                   file_path>>
    /\ \E outcome \in {"request_error", "http_error", "write_error", "ok"} :
         \E suggested \in IF DetectUrlType(url) = "civitai" THEN CivitaiNames ELSE {None} :
           LET path == RealizedPath(platform, filepath, DetectUrlType(url), suggested)
           IN  IF outcome \in {"request_error", "http_error"}
               THEN /\ downloaded_path' = filepath
                    /\ exc' = outcome
                    /\ pc' = "cleanup"
                    /\ hist' = [hist EXCEPT !.transfers = @ + 1, !.failed = @ + 1,
                                            !.delivered = "failed",
                                            !.urls = @ \cup {url}]
                    /\ UNCHANGED disk
               ELSE IF outcome = "write_error"
               THEN /\ downloaded_path' = path
                    /\ disk' = WriteFile(disk, path, Partial)
                    /\ exc' = outcome
                    /\ pc' = "cleanup"
                    /\ hist' = [hist EXCEPT !.transfers = @ + 1, !.failed = @ + 1,
                                            !.delivered = "failed",
                                            !.urls = @ \cup {url}]
               ELSE /\ downloaded_path' = path
                    /\ \E c \in Contents :
                         /\ disk' = WriteFile(disk, path, c)
                         /\ hist' = [hist EXCEPT !.transfers = @ + 1, !.delivered = c,
                                                 !.contents = @ \cup {c},
                                                 !.urls = @ \cup {url}]
                    /\ pc' = "verify"
                    /\ UNCHANGED exc

\* download_file's "except Exception": remove the file, re-raise to the caller
DownloadFileExcept ==
    /\ pc = "cleanup"
    /\ disk' = CleanupFailedDownload(disk, downloaded_path)
    /\ pc' = "except"
    /\ UNCHANGED <<pathVars, argVars, attempt, fname, filepath, downloaded_path, exc, dirs,
                   ini, clock, status, file_path, hist>>

\* After download_file returned: "if expected_hash: ... verify_hash", then success
VerifyDownloaded ==
    /\ pc = "verify"
    /\ UNCHANGED <<pathVars, argVars, fname, filepath, downloaded_path, dirs>>
    /\ LET v == VerifyHash(disk, downloaded_path, expected_hash)
       IN  IF expected_hash # "" /\ v = "false"
           THEN /\ disk' = Remove(disk, downloaded_path)
                /\ hist' = [hist EXCEPT !.removed = @ + 1]
                /\ UNCHANGED <<exc, ini, clock>>
                /\ IF AttemptsRemain(attempt, max_retries)
                   THEN NextIteration
                   ELSE /\ Return("err_hash", "hash_mismatch", <<>>)
                        /\ UNCHANGED attempt
           ELSE IF expected_hash # "" /\ v = "raise"
           THEN /\ exc' = "AttributeError"
                /\ pc' = "except"
                /\ UNCHANGED <<attempt, disk, ini, clock, status, file_path, hist>>
           ELSE /\ \E wrote \in BOOLEAN : RecordProvenance(downloaded_path, wrote)
                /\ Return("ok_downloaded", "none", downloaded_path)
                /\ UNCHANGED <<attempt, disk, exc>>

\* download_model's "except Exception as e": retry, or give up with the cause
ExceptHandler ==
    /\ pc = "except"
    /\ UNCHANGED <<pathVars, argVars, fname, filepath, downloaded_path, disk, dirs, ini,
                   clock, hist>>
    /\ IF AttemptsRemain(attempt, max_retries)
       THEN /\ exc' = "none"
            /\ NextIteration
       ELSE /\ Return("err_download", exc, <<>>)
            /\ UNCHANGED <<attempt, exc>>

Next ==
    \/ DownloadModelCall
    \/ CheckExisting
    \/ Transfer
    \/ DownloadFileExcept
    \/ VerifyDownloaded
    \/ ExceptHandler

Spec == DownloadInit /\ [][Next]_vars

\* ------------------------------------------------------------------ SpecLedger

\* Bound: the number of upserts made on one models.ini
MaxUpserts == 3

\* Two destinations of single-file downloads whose names give the same
\* section identifier, and two that do not
BlobUrl == <<"https://", HfHost, "/", "own", "/", "repo", "/", "blob", "/", "main",
             "/", "m", ".", "b">>
LedgerUrls == {HfUrl, CivitaiUrl, BlobUrl}
LedgerFilenames == {<<"m", ".", "b">>, <<"x", ".", "b">>}
LedgerHashes == {"", "ab1"}
\* Two repositories whose last segment is the same, and one that differs
ModelIds == {<<"org", "/", "m">>, <<"own", "/", "m">>, <<"org", "/", "n", "-", "1">>}
FileCounts == {1, 2}
\* Directory URLs with the repository and the directory they name
DirUrlA == <<"https://", HfHost, "/", "org", "/", "m", "/", "tree", "/", "main">>
DirUrlB == <<"https://", HfHost, "/", "own", "/", "m", "/", "tree", "/", "main",
             "/", "m">>
DirectoryInputs ==
    {[url |-> DirUrlA, repo_id |-> <<"org", "/", "m">>, directory_path |-> <<>>],
     [url |-> DirUrlB, repo_id |-> <<"own", "/", "m">>, directory_path |-> <<"m">>]}

LedgerInit ==
    /\ platform \in Platforms
    /\ subdirectory = <<"a">>
    /\ pathResult = Pending
    /\ url = <<>> /\ filename = <<>> /\ expected_hash = "" /\ max_retries = 0
    /\ civitaiName = None /\ mirror = NoMirror /\ batch = NoBatch /\ writers = NoWriters
    /\ pc = "ledger" /\ attempt = 0 /\ fname = <<>> /\ filepath = <<>> /\ exc = "none"
    /\ downloaded_path = <<>>
    /\ disk = <<>> /\ dirs = {} /\ ini = <<>> /\ clock = 0
    /\ status = NoStatus /\ file_path = <<>> /\ hist = NoHist

\* What an upsert leaves alone: everything but models.ini and the time
LedgerFrame ==
    /\ pc = "ledger"
    /\ clock < MaxUpserts
    /\ clock' = clock + 1
    /\ UNCHANGED <<pathVars, argVars, pc, attempt, fname, filepath, downloaded_path, exc,
                   status, file_path, disk, dirs>>

\* The upsert just made, as the claims about the ledger refer to it
Upserted(kind, key, source, base, name, hash, count) ==
    hist' = [hist EXCEPT !.upsert = [kind |-> kind, key |-> key, source |-> source,
                                     base |-> base, name |-> name, hash |-> hash,
                                     count |-> count, now |-> clock, before |-> ini]]

\* One call of save_to_ini
UpsertFile ==
    /\ LedgerFrame
    /\ \E u \in LedgerUrls, name \in LedgerFilenames, h \in LedgerHashes :
         /\ ini' = SaveToIni(ini, platform, u, subdirectory, name,
                             FilePath(platform, subdirectory, name), h, clock)
         /\ Upserted("file", "url", u, Replace(name, ".", "_"), name, h, 0)

\* One call of save_hf_directory_to_ini
UpsertHfDirectory ==
    /\ LedgerFrame
    /\ \E id \in ModelIds, n \in FileCounts :
         /\ ini' = SaveHfDirectoryToIni(ini, id, subdirectory, <<"main">>, <<>>, n, clock)
         /\ Upserted("huggingface_directory", "model_id", id,
                     <<"HF_DIR_">> \o Replace(Replace(LastSegment(id), ".", "_"), "-", "_"),
                     <<>>, "", n)

\* One call of save_directory_to_ini
UpsertDirectory ==
    /\ LedgerFrame
    /\ \E d \in DirectoryInputs, n \in FileCounts :
         /\ ini' = SaveDirectoryToIni(ini, d.url, subdirectory, d.repo_id, <<"main">>,
                                      d.directory_path, n, clock)
         /\ Upserted("directory", "url", d.url, <<"DIR_", "m">>, <<>>, "", n)

LedgerNext ==
    \/ UpsertFile
    \/ UpsertHfDirectory
    \/ UpsertDirectory

SpecLedger == LedgerInit /\ [][LedgerNext]_vars

\* ------------------------------------------------------------------ DirectoryMirror

\* The remote repository: the set of its file paths, each a sequence of names
\* separated by "/".  These are the paths a tree can hold.
RemoteFiles ==
    {<<"a.bin">>, <<"README.md">>, <<"d", "/", "b.bin">>, <<"d", "/", "README.md">>,
     <<"d", "/", "e", "/", "c.bin">>}

\* The directories of a tree: what precedes a "/" of one of its file paths
DirsOf(tree) ==
    UNION {{SubSeq(f, 1, i - 1) : i \in {j \in 1..Len(f) : f[j] = "/"}} : f \in tree}

\* The directory that holds path p (<<>> for the root)
ParentOf(p) ==
    IF LastSepIndex("posix", p) = 0 THEN <<>>
    ELSE SubSeq(p, 1, LastSepIndex("posix", p) - 1)

\* The order in which the tree API lists entries
RemoteOrder ==
    <<<<"README.md">>, <<"a.bin">>, <<"d">>, <<"d", "/", "README.md">>,
      <<"d", "/", "b.bin">>, <<"d", "/", "e">>, <<"d", "/", "e", "/", "c.bin">>>>

\* requests.get(api_url) succeeds and raise_for_status passes: the path names
\* the root or a directory of the repository, and the request is not one of
\* those that fail (broken)
Listable(tree, broken, dir) ==
    /\ dir = <<>> \/ dir \in DirsOf(tree)
    /\ dir \notin broken

\* response.json(): the entries directly inside dir, each with its type and
\* its path from the root of the repository
TreeItems(tree, dir) ==
    LET Inside(p) == ParentOf(p) = dir /\ (p \in tree \/ p \in DirsOf(tree))
        paths == SelectSeq(RemoteOrder, Inside)
    IN  [i \in 1..Len(paths) |->
           [type |-> IF paths[i] \in tree THEN "file" ELSE "directory", path |-> paths[i]]]

\* "full_subdir_path": the directory asked for in the recursive call
SubdirPathAsListed(directory_path, subdir_path) == subdir_path
FullSubdirPath(directory_path, subdir_path) ==
    IF directory_path # <<>> THEN directory_path \o <<"/">> \o subdir_path
    ELSE subdir_path

\* get_directory_files(repo_id, revision, directory_path): the entries it returns
RECURSIVE GetDirectoryFiles(_, _, _)
RECURSIVE FilesOfItems(_, _, _, _)
FilesOfItems(tree, broken, directory_path, items) ==
    IF items = <<>> THEN <<>>
    ELSE LET item == Head(items)
             rest == FilesOfItems(tree, broken, directory_path, Tail(items))
         IN  IF item.type = "file" THEN <<item>> \o rest
             ELSE GetDirectoryFiles(tree, broken,
                                    FullSubdirPath(directory_path, item.path)) \o rest

GetDirectoryFiles(tree, broken, directory_path) ==
    IF Listable(tree, broken, directory_path)
    THEN FilesOfItems(tree, broken, directory_path, TreeItems(tree, directory_path))
    ELSE <<>>

\* The directories get_directory_files sends a tree request for
RECURSIVE ListingRequests(_, _, _)
ListingRequests(tree, broken, directory_path) ==
    {directory_path} \cup
    IF Listable(tree, broken, directory_path)
    THEN LET items == TreeItems(tree, directory_path)
         IN  UNION {ListingRequests(tree, broken,
                                    FullSubdirPath(directory_path, items[i].path)) :
                    i \in {j \in 1..Len(items) : items[j].type = "directory"}}
    ELSE {}

\* parse_huggingface_directory_url(url):
\* re.search(r'huggingface\.co/([^/]+/[^/]+)/tree/([^/]+)(?:/(.+))?', url)
ParseHuggingfaceDirectoryUrl(u) ==
    LET at == {i \in 1..Len(u) :
                 /\ u[i] = HfHost
                 /\ i + 8 <= Len(u)
                 /\ u[i + 1] = "/" /\ u[i + 2] # "/" /\ u[i + 3] = "/" /\ u[i + 4] # "/"
                 /\ SubSeq(u, i + 5, i + 7) = <<"/", "tree", "/">>
                 /\ u[i + 8] # "/"}
    IN  IF at = {} THEN [repo_id |-> None, revision |-> None, directory_path |-> None]
        ELSE LET i == CHOOSE k \in at : \A j \in at : k <= j
             IN  [repo_id |-> SubSeq(u, i + 2, i + 4),
                  revision |-> <<u[i + 8]>>,
                  directory_path |-> IF i + 10 <= Len(u) /\ u[i + 9] = "/"
                                     THEN SubSeq(u, i + 10, Len(u)) ELSE <<>>]

\* "[f.strip() for f in exclude_files.split(',') if f.strip()]", as a set
ExcludeList(exclude_files) ==
    IF IsBlank(exclude_files) THEN {}
    ELSE {Strip(Split(exclude_files, ",")[i]) : i \in 1..Len(Split(exclude_files, ","))}
         \ {<<>>}

\* "excluded_count" after the same loop
RECURSIVE ExcludedCount(_, _)
ExcludedCount(files, exclude_list) ==
    IF files = <<>> THEN 0
    ELSE (IF Basename("posix", Head(files).path) \in exclude_list THEN 1 ELSE 0)
         + ExcludedCount(Tail(files), exclude_list)

\* The loop that drops the files whose basename is in the exclude list
KeepsEveryFile(files, exclude_list) == files
RECURSIVE FilterExcluded(_, _)
FilterExcluded(files, exclude_list) ==
    IF files = <<>> THEN <<>>
    ELSE IF Basename("posix", Head(files).path) \in exclude_list
    THEN FilterExcluded(Tail(files), exclude_list)
    ELSE <<Head(files)>> \o FilterExcluded(Tail(files), exclude_list)

\* os.path.dirname(p) for a relative path p
Dirname(plat, p) ==
    IF LastSepIndex(plat, p) = 0 THEN <<>> ELSE SubSeq(p, 1, LastSepIndex(plat, p) - 1)

\* "relative_path": the path of the file below directory_path
RelativePath(directory_path, file_path_in_repo) ==
    IF directory_path = <<>> THEN file_path_in_repo
    ELSE IF StartsWith(file_path_in_repo, directory_path \o <<"/">>)
    THEN SubSeq(file_path_in_repo, Len(directory_path) + 2, Len(file_path_in_repo))
    ELSE IF StartsWith(file_path_in_repo, directory_path)
    THEN SubSeq(file_path_in_repo, Len(directory_path) + 1, Len(file_path_in_repo))
    ELSE file_path_in_repo

\* os.path.join(a, *parts)
RECURSIVE JoinAll(_, _, _)
JoinAll(plat, a, parts) ==
    IF parts = <<>> THEN a
    ELSE JoinAll(plat, OsPathJoin(plat, a, Head(parts)), Tail(parts))

\* "file_subdirectory": the subdirectory handed on for one file of the mirror
FileSubdirectory(plat, subdir, directory_path, file_path_in_repo) ==
    LET parts == Split(Dirname(plat, RelativePath(directory_path, file_path_in_repo)), "/")
    IN  IF parts # <<>> /\ parts[1] # <<>> THEN JoinAll(plat, subdir, parts) ELSE subdir

\* "file_url"
FileUrl(repo_id, revision, file_path_in_repo) ==
    <<"https://", HfHost, "/">> \o repo_id \o <<"/", "resolve", "/">> \o revision
        \o <<"/">> \o file_path_in_repo

\* ------------------------------------------------------------------ SpecMirror

\* Bound: the largest max_retries a directory download is started with
MaxMirrorRetries == 2

DirUrlRoot == <<"https://", HfHost, "/", "org", "/", "m", "/", "tree", "/", "main">>
DirUrlD == DirUrlRoot \o <<"/", "d">>
DirUrlInputs == {DirUrlRoot, DirUrlD}

\* The repositories tried: flat, nested once (with a nested README.md or
\* without), nested twice, only an excluded file, and empty
MirrorTrees ==
    {{<<"a.bin">>, <<"README.md">>},
     {<<"a.bin">>, <<"d", "/", "b.bin">>},
     {<<"d", "/", "README.md">>, <<"d", "/", "b.bin">>},
     {<<"d", "/", "b.bin">>, <<"d", "/", "e", "/", "c.bin">>},
     {<<"README.md">>},
     {}}

\* The directories whose tree request fails: none, the root, or d
BrokenInputs == {{}, {<<>>}, {<<"d">>}}

DefaultExclude == <<"README.md", ",", " ", ".gitattributes">>
ExcludeInputs == {DefaultExclude, <<>>}

\* What the status message of a directory download states: nothing yet
NoSummary == [downloaded |-> 0, skipped |-> 0, failed |-> 0, stated |-> FALSE]

\* The paths of a list of tree items
RECURSIVE PathsOf(_)
PathsOf(items) == IF items = <<>> THEN <<>> ELSE <<Head(items).path>> \o PathsOf(Tail(items))

\* Where ModelDownloader.download_directory puts one file, when the path is valid
MirrorTarget(plat, subdir, directory_path, file_path_in_repo) ==
    FilePath(plat,
             NormalizeAndValidatePath(plat, FileSubdirectory(plat, subdir, directory_path,
                                                            file_path_in_repo)).path,
             Basename("posix", file_path_in_repo))

\* The state of ModelDownloader.download_directory(url, subdirectory,
\* exclude_files, ..) before its first statement, with the remote repository
\* (tree, broken) it is run against
UrlMirrorInputs ==
    [kind : {"url"}, tree : MirrorTrees, broken : BrokenInputs,
     url : DirUrlInputs, subdirectory : SubdirInputs, exclude_files : ExcludeInputs,
     requests : {{}}, all_files : {<<>>}, files : {<<>>}, idx : {0},
     excluded_count : {0}, visited : {<<>>}, downloaded_files : {<<>>},
     failed_files : {<<>>}, skipped_files : {<<>>}, summary : {NoSummary}]

HfModelIds == {<<"org", "/", "m">>, <<>>}
HfFolderInputs == {<<"a">>, <<" ">>, <<".", ".">>}
RevisionInputs == {<<"main">>, <<>>}

\* "os.path.join(self.base_path, save_folder, repo_name)" after the strips
SavePath(plat, model_id, save_folder) ==
    JoinAll(plat, BasePath(plat), <<Strip(save_folder), LastSegment(Strip(model_id))>>)

\* "target_dir" of HuggingFaceDirectoryDownloader.download_directory
HfTargetDir(plat, save_path, file_path_in_repo) ==
    IF Dirname(plat, file_path_in_repo) # <<>>
    THEN OsPathJoin(plat, save_path, Dirname(plat, file_path_in_repo))
    ELSE save_path

\* "target_filepath"
HfTargetFilepath(plat, save_path, file_path_in_repo) ==
    OsPathJoin(plat, HfTargetDir(plat, save_path, file_path_in_repo),
               Basename(plat, file_path_in_repo))

\* "revision.strip() if revision else 'main'"
RevisionOf(revision) == IF revision # <<>> THEN Strip(revision) ELSE <<"main">>

\* The state of HuggingFaceDirectoryDownloader.download_directory(model_id,
\* save_folder, exclude_files, revision, ..) before its first statement
HfMirrorInputs ==
    [kind : {"hf"}, tree : MirrorTrees, broken : BrokenInputs,
     model_id : HfModelIds, save_folder : HfFolderInputs, revision : RevisionInputs,
     exclude_files : ExcludeInputs,
     requests : {{}}, all_files : {<<>>}, files : {<<>>}, idx : {0},
     excluded_count : {0}, visited : {<<>>}, downloaded_files : {<<>>},
     failed_files : {<<>>}, skipped_files : {<<>>}, summary : {NoSummary}]

\* A file that is at its destination before the directory download starts
PreExisting(plat, m, pre) ==
    IF m.kind = "url"
    THEN IF NormalizeAndValidatePath(plat,
                FileSubdirectory(plat, m.subdirectory,
                                 ParseHuggingfaceDirectoryUrl(m.url).directory_path,
                                 pre)).ok
         THEN MirrorTarget(plat, m.subdirectory,
                           ParseHuggingfaceDirectoryUrl(m.url).directory_path, pre) :> "c1"
         ELSE <<>>
    ELSE HfTargetFilepath(plat, SavePath(plat, m.model_id, m.save_folder), pre) :> "c1"

\* A models.ini that already records the directory download m with a file
\* count of 1: a [DIR_..] section for a URL, a [HF_DIR_..] section for a model id
PriorLedger(m) ==
    IF m.kind = "url"
    THEN SaveDirectoryToIni(<<>>, m.url, m.subdirectory,
                            ParseHuggingfaceDirectoryUrl(m.url).repo_id,
                            ParseHuggingfaceDirectoryUrl(m.url).revision,
                            ParseHuggingfaceDirectoryUrl(m.url).directory_path, 1, 0)
    ELSE SaveHfDirectoryToIni(<<>>, Strip(m.model_id), Strip(m.save_folder),
                              RevisionOf(m.revision), m.exclude_files, 1, 0)

MirrorInit ==
    /\ platform \in Platforms
    /\ mirror \in UrlMirrorInputs \cup HfMirrorInputs
    /\ batch = NoBatch /\ writers = NoWriters
    /\ max_retries \in 0..MaxMirrorRetries
    /\ subdirectory = <<>> /\ pathResult = Pending
    /\ url = <<>> /\ filename = <<>> /\ expected_hash = "" /\ civitaiName = None
    /\ pc = "mirror_start" /\ attempt = 0 /\ fname = <<>> /\ filepath = <<>>
    /\ exc = "none" /\ downloaded_path = <<>>
    /\ \E pre \in {<<>>} \cup mirror.tree :
         disk = IF pre = <<>> THEN <<>> ELSE PreExisting(platform, mirror, pre)
    /\ dirs = {}
    /\ ini \in {<<>>, PriorLedger(mirror)}
    /\ clock = Len(ini)
    /\ status = NoStatus /\ file_path = <<>>
    /\ hist = [NoHist EXCEPT !.diskAtCall = disk, !.iniAtCall = ini]

\* The statuses with which a directory download returns before its loop, the
\* ones that hold the word "Error"
MirrorErrors == {"err_mirror_url", "err_no_files", "err_all_excluded",
                 "err_model_id_empty", "err_save_folder_empty"}

\* "return (status_msg, downloaded_files)" of a directory download
MirrorReturns(kind, paths) ==
    /\ pc' = "mirror_done"
    /\ status' = [kind |-> kind, attempts |-> max_retries, cause |-> "none"]
    /\ file_path' = paths

\* ModelDownloader.download_directory from its entry to the start of the loop
\* over the files: the exclude list, the URL, the listing, the filter
MirrorCall ==
    /\ pc = "mirror_start"
    /\ mirror.kind = "url"
    /\ UNCHANGED <<pathVars, url, filename, expected_hash, max_retries, civitaiName, batch, writers,
                   attempt, fname, filepath, downloaded_path, exc, hist, worldVars>>
    /\ LET parsed == ParseHuggingfaceDirectoryUrl(mirror.url)
           all_files == GetDirectoryFiles(mirror.tree, mirror.broken, parsed.directory_path)
           files == FilterExcluded(all_files, ExcludeList(mirror.exclude_files))
           listed == [mirror EXCEPT
                        !.requests = ListingRequests(mirror.tree, mirror.broken,
                                                     parsed.directory_path),
                        !.all_files = all_files]
       IN  IF parsed.repo_id = None
           THEN /\ MirrorReturns("err_mirror_url", <<>>)
                /\ UNCHANGED mirror
           ELSE IF all_files = <<>>
           THEN /\ MirrorReturns("err_no_files", <<>>)
                /\ mirror' = listed
           ELSE IF files = <<>>
           THEN /\ MirrorReturns("err_all_excluded", <<>>)
                /\ mirror' = listed
           ELSE /\ mirror' = [listed EXCEPT
                                !.files = files, !.idx = 1,
                                !.excluded_count =
                                    ExcludedCount(all_files, ExcludeList(mirror.exclude_files))]
                /\ pc' = "mirror_loop"
                /\ UNCHANGED <<status, file_path>>

\* "if os.path.exists(target_filepath)"
NeverExists(dsk, path) == FALSE
Exists(dsk, path) == path \in DOMAIN dsk

\* "for idx, file_info in enumerate(files, 1)": after "continue" or the end of
\* the body, the loop goes on with the next of the n files
LoopEnds(i, n) == n + 1
NextFile(i, n) == i + 1

\* One iteration of the loop over the files, up to the call of download_model
\* and into it as far as its own retry loop
MirrorFile ==
    /\ pc = "mirror_loop"
    /\ mirror.kind = "url"
    /\ mirror.idx <= Len(mirror.files)
    /\ UNCHANGED <<platform, expected_hash, max_retries, civitaiName, batch, writers, downloaded_path,
                   disk, ini, clock, hist>>
    /\ LET parsed == ParseHuggingfaceDirectoryUrl(mirror.url)
           file_path_in_repo == mirror.files[mirror.idx].path
           name == Basename("posix", file_path_in_repo)
           file_subdirectory == FileSubdirectory(platform, mirror.subdirectory,
                                                 parsed.directory_path, file_path_in_repo)
           r == NormalizeAndValidatePath(platform, file_subdirectory)
           file_url == FileUrl(parsed.repo_id, parsed.revision, file_path_in_repo)
           seen == [mirror EXCEPT !.visited = Append(@, file_path_in_repo)]
       IN  IF ~r.ok
           THEN /\ mirror' = [seen EXCEPT !.failed_files = Append(@, file_path_in_repo),
                                          !.idx = NextFile(@, Len(mirror.files))]
                /\ UNCHANGED <<subdirectory, pathResult, url, filename, pc, attempt, fname,
                               filepath, exc, status, file_path, dirs>>
           ELSE IF Exists(disk, FilePath(platform, r.path, name))
           THEN /\ mirror' = [seen EXCEPT !.skipped_files = Append(@, file_path_in_repo),
                                          !.idx = NextFile(@, Len(mirror.files))]
                /\ UNCHANGED <<subdirectory, pathResult, url, filename, pc, attempt, fname,
                               filepath, exc, status, file_path, dirs>>
           ELSE /\ mirror' = seen
                /\ url' = file_url
                /\ subdirectory' = file_subdirectory
                /\ filename' = name
                /\ exc' = "none"
                /\ EnterDownloadModel(file_url, file_subdirectory, name, None)

\* '"Error" not in status', for the statuses download_model returns (no file
\* name of the repositories tried holds the word)
SaysError(st) == IsError(st)

\* After download_model returned: the file goes to one of the three lists
MirrorCollect ==
    /\ pc = "done"
    /\ mirror.kind = "url"
    /\ UNCHANGED <<pathVars, url, filename, expected_hash, max_retries, civitaiName, batch, writers,
                   attempt, fname, filepath, downloaded_path, exc, status, file_path, hist,
                   worldVars>>
    /\ pc' = "mirror_loop"
    /\ LET file_path_in_repo == mirror.files[mirror.idx].path
       IN  IF file_path # <<>> /\ ~SaysError(status)
           THEN mirror' = [mirror EXCEPT !.downloaded_files = Append(@, file_path),
                                         !.idx = NextFile(@, Len(mirror.files))]
           ELSE IF status.kind = "ok_exists"
           THEN mirror' = [mirror EXCEPT !.skipped_files = Append(@, file_path_in_repo),
                                         !.idx = NextFile(@, Len(mirror.files))]
           ELSE mirror' = [mirror EXCEPT !.failed_files = Append(@, file_path_in_repo),
                                         !.idx = NextFile(@, Len(mirror.files))]

\* "status_msg": the counts it states (the failed count only when a file failed)
StatusMsg(m) ==
    [downloaded |-> Len(m.downloaded_files), skipped |-> Len(m.skipped_files),
     failed |-> Len(m.failed_files), stated |-> TRUE]

\* The end of the loop: the summary and the return
MirrorFinish ==
    /\ pc = "mirror_loop"
    /\ mirror.kind = "url"
    /\ mirror.idx > Len(mirror.files)
    /\ MirrorReturns(IF mirror.failed_files # <<>> THEN "warn_mirror" ELSE "ok_mirror",
                     mirror.downloaded_files)
    /\ mirror' = [mirror EXCEPT !.summary = StatusMsg(mirror)]
    /\ UNCHANGED <<pathVars, url, filename, expected_hash, max_retries, civitaiName, batch, writers,
                   attempt, fname, filepath, downloaded_path, exc, hist, worldVars>>

\* HuggingFaceDirectoryDownloader.download_directory from its entry to the
\* start of the loop over the files
HfMirrorCall ==
    /\ pc = "mirror_start"
    /\ mirror.kind = "hf"
    /\ UNCHANGED <<pathVars, url, filename, expected_hash, max_retries, civitaiName, batch, writers,
                   attempt, fname, filepath, downloaded_path, exc, hist, disk, ini, clock>>
    /\ LET save_path == SavePath(platform, mirror.model_id, mirror.save_folder)
           all_files == GetDirectoryFiles(mirror.tree, mirror.broken, <<>>)
           files == FilterExcluded(all_files, ExcludeList(mirror.exclude_files))
           listed == [mirror EXCEPT
                        !.requests = ListingRequests(mirror.tree, mirror.broken, <<>>),
                        !.all_files = all_files]
       IN  IF IsBlank(mirror.model_id)
           THEN /\ MirrorReturns("err_model_id_empty", <<>>)
                /\ UNCHANGED <<mirror, dirs>>
           ELSE IF IsBlank(mirror.save_folder)
           THEN /\ MirrorReturns("err_save_folder_empty", <<>>)
                /\ UNCHANGED <<mirror, dirs>>
           ELSE /\ dirs' = dirs \cup {save_path}
                /\ IF all_files = <<>>
                   THEN /\ MirrorReturns("err_no_files", <<>>)
                        /\ mirror' = listed
                   ELSE IF files = <<>>
                   THEN /\ MirrorReturns("err_all_excluded", <<>>)
                        /\ mirror' = listed
                   ELSE /\ mirror' = [listed EXCEPT
                                        !.files = files, !.idx = 1,
                                        !.excluded_count =
                                            ExcludedCount(all_files,
                                                          ExcludeList(mirror.exclude_files))]
                        /\ pc' = "mirror_loop"
                        /\ UNCHANGED <<status, file_path>>

\* One iteration of its loop over the files, up to the retry loop
HfMirrorFile ==
    /\ pc = "mirror_loop"
    /\ mirror.kind = "hf"
    /\ mirror.idx <= Len(mirror.files)
    /\ UNCHANGED <<pathVars, filename, expected_hash, max_retries, civitaiName, batch, writers, fname,
                   downloaded_path, exc, status, file_path, hist, disk, ini, clock>>
    /\ LET save_path == SavePath(platform, mirror.model_id, mirror.save_folder)
           file_path_in_repo == mirror.files[mirror.idx].path
           target_dir == HfTargetDir(platform, save_path, file_path_in_repo)
           target_filepath == HfTargetFilepath(platform, save_path, file_path_in_repo)
           seen == [mirror EXCEPT !.visited = Append(@, file_path_in_repo)]
       IN  IF Exists(disk, target_filepath)
           THEN /\ mirror' = [seen EXCEPT !.skipped_files = Append(@, file_path_in_repo),
                                          !.idx = NextFile(@, Len(mirror.files))]
                /\ UNCHANGED <<url, pc, attempt, filepath, dirs>>
           ELSE /\ dirs' = dirs \cup {target_dir}
                /\ url' = FileUrl(Strip(mirror.model_id), RevisionOf(mirror.revision),
                                  file_path_in_repo)
                /\ filepath' = target_filepath
                /\ IF AttemptRange(max_retries) # {}
                   THEN /\ attempt' = 1
                        /\ pc' = "hf_transfer"
                        /\ mirror' = seen
                   ELSE /\ mirror' = [seen EXCEPT !.idx = NextFile(@, Len(mirror.files))]
                        /\ UNCHANGED <<pc, attempt>>

\* One iteration of its retry loop: the request and the writes, and the
\* "except Exception" around them
HfTransfer ==
    /\ pc = "hf_transfer"
    /\ mirror.kind = "hf"
    /\ UNCHANGED <<pathVars, url, filename, expected_hash, max_retries, civitaiName, batch, writers, fname,
                   filepath, downloaded_path, exc, status, file_path, dirs, ini, clock>>
    /\ \E outcome \in {"request_error", "http_error", "write_error", "ok"} :
         LET file_path_in_repo == mirror.files[mirror.idx].path
             written == IF outcome = "write_error"
                        THEN WriteFile(disk, filepath, Partial)
                        ELSE disk
         IN  IF outcome = "ok"
             THEN /\ \E c \in Contents :
                       /\ disk' = WriteFile(disk, filepath, c)
                       /\ hist' = [hist EXCEPT !.transfers = @ + 1, !.delivered = c,
                                               !.contents = @ \cup {c},
                                               !.urls = @ \cup {url}]
                  /\ mirror' = [mirror EXCEPT
                                  !.downloaded_files = Append(@, file_path_in_repo),
                                  !.idx = NextFile(@, Len(mirror.files))]
                  /\ pc' = "mirror_loop"
                  /\ UNCHANGED attempt
             ELSE /\ hist' = [hist EXCEPT !.transfers = @ + 1, !.failed = @ + 1,
                                          !.delivered = "failed",
                                          !.urls = @ \cup {url}]
                  /\ IF AttemptsRemain(attempt, max_retries)
                     THEN /\ attempt' = attempt + 1
                          /\ disk' = written
                          /\ UNCHANGED <<pc, mirror>>
                     ELSE /\ mirror' = [mirror EXCEPT
                                          !.failed_files = Append(@, file_path_in_repo),
                                          !.idx = NextFile(@, Len(mirror.files))]
                          /\ disk' = CleanupFailedDownload(written, filepath)
                          /\ pc' = "mirror_loop"
                          /\ UNCHANGED attempt

\* The end of its loop: the summary, the ledger entry of the directory (in a
\* try/except: wrote is FALSE when save_hf_directory_to_ini raised), the return
HfMirrorFinish ==
    /\ pc = "mirror_loop"
    /\ mirror.kind = "hf"
    /\ mirror.idx > Len(mirror.files)
    /\ MirrorReturns(IF mirror.failed_files # <<>> THEN "warn_mirror" ELSE "ok_mirror",
                     SavePath(platform, mirror.model_id, mirror.save_folder))
    /\ IF mirror.downloaded_files # <<>> \/ mirror.skipped_files # <<>>
       THEN \E wrote \in BOOLEAN :
              /\ ini' = IF wrote
                        THEN SaveHfDirectoryToIni(ini, Strip(mirror.model_id),
                                 Strip(mirror.save_folder), RevisionOf(mirror.revision),
                                 mirror.exclude_files,
                                 Len(mirror.downloaded_files) + Len(mirror.skipped_files),
                                 clock)
                        ELSE ini
              /\ clock' = IF wrote THEN clock + 1 ELSE clock
       ELSE UNCHANGED <<ini, clock>>
    /\ mirror' = [mirror EXCEPT !.summary = StatusMsg(mirror)]
    /\ UNCHANGED <<pathVars, url, filename, expected_hash, max_retries, civitaiName, batch, writers,
                   attempt, fname, filepath, downloaded_path, exc, hist, disk, dirs>>

MirrorNext ==
    \/ MirrorCall
    \/ MirrorFile
    \/ MirrorCollect
    \/ MirrorFinish
    \/ HfMirrorCall
    \/ HfMirrorFile
    \/ HfTransfer
    \/ HfMirrorFinish
    \/ CheckExisting
    \/ Transfer
    \/ DownloadFileExcept
    \/ VerifyDownloaded
    \/ ExceptHandler

SpecMirror == MirrorInit /\ [][MirrorNext]_vars

\* ------------------------------------------------------------------ SpecBatch

\* Bounds: the largest max_retries download_from_ini is called with, and the
\* number of download_from_ini calls made one after the other
MaxBatchRetries == 1
MaxBatchRuns == 2

\* config.get(section, option) raises InterpolationSyntaxError: the value holds
\* a "%" that BasicInterpolation cannot expand
GetRaises(sec, option) ==
    /\ option \in DOMAIN sec.opts
    /\ HasBarePercent(sec.opts[option])

\* config.get(section, option, fallback=fallback), when it does not raise
ConfigGet(sec, option, fallback) ==
    IF option \in DOMAIN sec.opts THEN sec.opts[option] ELSE fallback

\* The hash option as the string download_model receives
HashOf(sec) ==
    IF "hash" \in DOMAIN sec.opts /\ sec.opts["hash"] # <<>> THEN sec.opts["hash"][1]
    ELSE ""

\* The section download_model(u, subdir, given) records after a success
RecordedSection(plat, u, subdir, given, api) ==
    SaveToIni(<<>>, plat, u, subdir, DetermineFilename(given, u, DetectUrlType(u), api),
              TargetOf(plat, subdir, given, u, api), "", 0)[1]

\* The sections a ledger is made of: two that download_model recorded, one
\* without url, one whose url is percent-encoded, one with a hash, the section
\* of a HuggingFace directory download, one of that type without model_id, and
\* a file section that names a directory URL
SectionInputs(plat) ==
    <<RecordedSection(plat, HfUrl, <<"a">>, <<>>, None),
     RecordedSection(plat, CivitaiUrl, <<>>, <<"x", ".", "b">>, None),
     [name |-> <<"nourl">>, opts |-> [subdirectory |-> <<"a">>]],
     [name |-> <<"pct">>,
      opts |-> [url |-> PercentUrl, subdirectory |-> <<"a">>,
                filename |-> <<"p", ".", "b">>]],
     [name |-> <<"hashed">>,
      opts |-> [url |-> BlobUrl, subdirectory |-> <<"a">>, filename |-> <<"h", ".", "b">>,
                filepath |-> RelPath(plat, FilePath(plat, <<"a">>, <<"h", ".", "b">>)),
                hash |-> <<"ab1">>]],
     SaveHfDirectoryToIni(<<>>, <<"org", "/", "m">>, <<"a">>, <<"main">>, DefaultExclude,
                          1, 0)[1],
     [name |-> <<"nomodel">>, opts |-> [type |-> <<"huggingface_directory">>]],
     [name |-> <<"tree">>, opts |-> [url |-> DirUrlRoot, subdirectory |-> <<"a">>]]>>

\* The ledger after download_model recorded two files of the same name from
\* different URLs
RecordedTwice(plat) ==
    SaveToIni(<<RecordedSection(plat, HfUrl, <<"a">>, <<>>, None)>>, plat, BlobUrl, <<"a">>,
              DetermineFilename(<<>>, BlobUrl, DetectUrlType(BlobUrl), None),
              TargetOf(plat, <<"a">>, <<>>, BlobUrl, None), "", 1)

\* The ledgers read: no section (or no file), one section, two different
\* sections in the order of SectionInputs, or the two of RecordedTwice
LedgerInputs(plat) ==
    LET all == SectionInputs(plat)
    IN  {<<>>, RecordedTwice(plat)} \cup {<<all[i]>> : i \in DOMAIN all}
               \cup {<<all[l[1]], all[l[2]]>> : l \in {k \in (DOMAIN all) \X (DOMAIN all) :
                                                         k[1] < k[2]}}

\* The file a file section records, as a path under the models root
RecordedTarget(plat, sec) == OsPathJoin(plat, BasePath(plat), sec.opts["filepath"])

\* The working directory of the process: the models root, or another directory
WorkingDirs(plat) ==
    {BasePath(plat), IF plat = "posix" THEN <<"/", "comfy">> ELSE <<"C", ":", "\\", "comfy">>}

\* os.path.exists(path) for a path that may be relative to the working directory
ExistsFrom(plat, cwd, dsk, path) ==
    \E q \in DOMAIN dsk : Location(plat, q) = Location(plat, OsPathJoin(plat, cwd, path))

\* The local variables of a directory download that has not started
MirrorLocals ==
    [requests |-> {}, all_files |-> <<>>, files |-> <<>>, idx |-> 0, excluded_count |-> 0,
     visited |-> <<>>, downloaded_files |-> <<>>, failed_files |-> <<>>,
     skipped_files |-> <<>>, summary |-> NoSummary]

NoResults == [total |-> 0, success |-> 0, skipped |-> 0, failed |-> 0]

\* The state of download_from_ini(ini_file_path="", exclude_files, max_retries,
\* skip_existing) before its first statement, with the working directory of
\* the process and the remote repository directory downloads are run against.
\* log, mark, runs and first are history: what happened to each section of
\* this run, the counters when the current section started, the number of
\* runs started, the summary of the run before, the ledger when this run
\* started, and the ledger and the files present when the first run started.
BatchInputs(plat) ==
    [kind : {"ini"}, skip_existing : BOOLEAN, exclude_files : {DefaultExclude},
     cwd : WorkingDirs(plat), tree : {{<<"a.bin">>, <<"README.md">>}},
     broken : {{}, {<<>>}},
     config : {<<>>}, idx : {0}, results : {NoResults}, summary : {NoResults},
     log : {<<>>}, mark : {[transfers |-> 0, saves |-> 0, disk |-> {}]}, runs : {0},
     first : {NoResults}, iniAtRun : {<<>>}, iniAtFirst : {<<>>}, diskAtFirst : {{}}]

BatchInit ==
    /\ platform \in Platforms
    /\ batch \in BatchInputs(platform)
    /\ writers = NoWriters
    /\ mirror = NoMirror
    /\ max_retries \in 0..MaxBatchRetries
    /\ subdirectory = <<>> /\ pathResult = Pending
    /\ url = <<>> /\ filename = <<>> /\ expected_hash = "" /\ civitaiName = None
    /\ pc = "batch_start" /\ attempt = 0 /\ fname = <<>> /\ filepath = <<>>
    /\ exc = "none" /\ downloaded_path = <<>>
    /\ ini \in LedgerInputs(platform)
    /\ \E present \in SUBSET {i \in 1..Len(ini) : "filepath" \in DOMAIN ini[i].opts} :
         disk = [q \in {RecordedTarget(platform, ini[i]) : i \in present} |-> "c1"]
    /\ dirs = {} /\ clock = Len(ini)
    /\ status = NoStatus /\ file_path = <<>>
    /\ hist = [NoHist EXCEPT !.diskAtCall = disk, !.iniAtCall = ini]

\* "return (status_msg, summary)" of download_from_ini
BatchReturns(kind) ==
    /\ pc' = "batch_done"
    /\ status' = [kind |-> kind, attempts |-> max_retries, cause |-> "none"]
    /\ file_path' = <<>>

\* What is remembered of the state in which a run starts
Started(b) ==
    [b EXCEPT !.runs = @ + 1, !.first = b.summary, !.iniAtRun = ini,
              !.iniAtFirst = IF b.runs = 0 THEN ini ELSE @,
              !.diskAtFirst = IF b.runs = 0 THEN DOMAIN disk ELSE @]

\* download_from_ini from its entry to the start of the loop over the sections
BatchCall ==
    /\ batch.kind = "ini"
    /\ pc = "batch_start" \/ (pc = "batch_done" /\ batch.runs < MaxBatchRuns)
    /\ UNCHANGED <<pathVars, url, filename, expected_hash, max_retries, civitaiName, mirror, writers,
                   attempt, fname, filepath, downloaded_path, exc, worldVars>>
    /\ hist' = [NoHist EXCEPT !.diskAtCall = disk, !.iniAtCall = ini]
    /\ IF ini = <<>>
       THEN /\ BatchReturns("err_ini")
            /\ batch' = [Started(batch) EXCEPT !.summary = NoResults]
       ELSE /\ batch' = [Started(batch) EXCEPT
                           !.config = ini, !.idx = 1, !.log = <<>>,
                           !.results = [NoResults EXCEPT !.total = Len(ini)],
                           !.summary = NoResults]
            /\ pc' = "batch_loop"
            /\ UNCHANGED <<status, file_path>>

\* An iteration that ends without touching the counters
CountedNowhere(b, outcome) ==
    [b EXCEPT !.idx = @ + 1,
              !.log = Append(@, [name |-> b.config[b.idx].name, outcome |-> outcome,
                                 transfers |-> hist.transfers - b.mark.transfers,
                                 saves |-> hist.saves - b.mark.saves,
                                 disk |-> b.mark.disk])]

\* The end of one iteration: the section is counted under outcome, the loop
\* goes on
Counted(b, outcome) ==
    [b EXCEPT !.results[outcome] = @ + 1,
              !.idx = @ + 1,
              !.log = Append(@, [name |-> b.config[b.idx].name, outcome |-> outcome,
                                 transfers |-> hist.transfers - b.mark.transfers,
                                 saves |-> hist.saves - b.mark.saves,
                                 disk |-> b.mark.disk])]

\* The counters when a section starts
Marked(b) ==
    [b EXCEPT !.mark = [transfers |-> hist.transfers, saves |-> hist.saves,
                        disk |-> DOMAIN disk]]

\* An exception leaves download_from_ini
BatchRaises(e) ==
    /\ pc' = "batch_raised"
    /\ exc' = e
    /\ UNCHANGED <<status, file_path>>

\* One iteration of the loop over the sections, up to the call of
\* download_directory or download_model and into it
BatchSection ==
    /\ pc = "batch_loop"
    /\ batch.kind = "ini"
    /\ batch.idx <= Len(batch.config)
    /\ UNCHANGED <<platform, max_retries, writers, downloaded_path, disk, ini, clock, hist>>
    /\ LET sec == batch.config[batch.idx]
           b == Marked(batch)
           same == UNCHANGED <<subdirectory, pathResult, url, filename, expected_hash,
                               civitaiName, mirror, attempt, fname, filepath, dirs>>
       IN  IF GetRaises(sec, "type")
           THEN /\ BatchRaises("InterpolationSyntaxError")
                /\ batch' = b
                /\ same
           ELSE IF ConfigGet(sec, "type", <<"file">>) = <<"huggingface_directory">>
           THEN IF "model_id" \notin DOMAIN sec.opts
                THEN /\ batch' = Counted(b, "failed")
                     /\ UNCHANGED <<pc, exc, status, file_path>>
                     /\ same
                ELSE IF \E o \in {"model_id", "save_folder", "revision", "exclude_files"} :
                           GetRaises(sec, o)
                THEN /\ BatchRaises("InterpolationSyntaxError")
                     /\ batch' = b
                     /\ same
                ELSE /\ batch' = b
                     /\ mirror' = [kind |-> "hf", tree |-> batch.tree,
                                   broken |-> batch.broken,
                                   model_id |-> ConfigGet(sec, "model_id", <<>>),
                                   save_folder |-> ConfigGet(sec, "save_folder", <<"LLM">>),
                                   revision |-> ConfigGet(sec, "revision", <<"main">>),
                                   exclude_files |-> ConfigGet(sec, "exclude_files",
                                                               batch.exclude_files)]
                                  @@ MirrorLocals
                     /\ pc' = "mirror_start"
                     /\ UNCHANGED <<subdirectory, pathResult, url, filename, expected_hash,
                                    civitaiName, attempt, fname, filepath, dirs, exc, status,
                                    file_path>>
           ELSE IF "url" \notin DOMAIN sec.opts
           THEN /\ batch' = Counted(b, "failed")
                /\ UNCHANGED <<pc, exc, status, file_path>>
                /\ same
           ELSE IF \E o \in {"url", "subdirectory", "filename", "hash"} : GetRaises(sec, o)
           THEN /\ BatchRaises("InterpolationSyntaxError")
                /\ batch' = b
                /\ same
           ELSE IF /\ batch.skip_existing
                   /\ ConfigGet(sec, "filename", <<>>) # <<>>
                   /\ ~GetRaises(sec, "filepath")
                   /\ ConfigGet(sec, "filepath", <<>>) # <<>>
                   /\ ExistsFrom(platform, batch.cwd, disk, ConfigGet(sec, "filepath", <<>>))
           THEN /\ batch' = Counted(b, "skipped")
                /\ UNCHANGED <<pc, exc, status, file_path>>
                /\ same
           ELSE IF /\ batch.skip_existing
                   /\ ConfigGet(sec, "filename", <<>>) # <<>>
                   /\ GetRaises(sec, "filepath")
           THEN /\ BatchRaises("InterpolationSyntaxError")
                /\ batch' = b
                /\ same
           ELSE LET u == ConfigGet(sec, "url", <<>>)
                    subdir == ConfigGet(sec, "subdirectory", Checkpoints)
                    given == ConfigGet(sec, "filename", <<>>)
                IN  /\ batch' = b
                    /\ url' = u
                    /\ subdirectory' = subdir
                    /\ filename' = given
                    /\ exc' = "none"
                    /\ IF DetectUrlType(u) = "huggingface_directory"
                       THEN /\ mirror' = [kind |-> "url", tree |-> batch.tree,
                                          broken |-> batch.broken, url |-> u,
                                          subdirectory |-> subdir,
                                          exclude_files |-> batch.exclude_files]
                                         @@ MirrorLocals
                            /\ pc' = "mirror_start"
                            /\ expected_hash' = ""
                            /\ civitaiName' = None
                            /\ UNCHANGED <<pathResult, attempt, fname, filepath, dirs,
                                           status, file_path>>
                       ELSE /\ civitaiName' \in IF DetectUrlType(u) = "civitai"
                                                   /\ given = <<>>
                                                THEN CivitaiNames ELSE {None}
                            /\ expected_hash' = HashOf(sec)
                            /\ UNCHANGED mirror
                            /\ EnterDownloadModel(u, subdir, given, civitaiName')

\* After download_model returned a single file's result: the section is
\* counted as success, skipped or failed
BatchCollect ==
    /\ pc = "done"
    /\ batch.kind = "ini"
    /\ mirror.kind = "none"
    /\ UNCHANGED <<pathVars, url, filename, expected_hash, max_retries, civitaiName, mirror, writers,
                   attempt, fname, filepath, downloaded_path, exc, status, file_path, hist,
                   worldVars>>
    /\ pc' = "batch_loop"
    /\ batch' = Counted(batch, IF file_path # <<>> /\ ~SaysError(status) THEN "success"
                               ELSE IF status.kind = "ok_exists" THEN "skipped"
                               ELSE "failed")

\* After a directory download returned: '"Error" not in status' for a
\* huggingface_directory section; for a file section with a directory URL the
\* list of downloaded files must not be empty either
BatchCollectMirror ==
    /\ pc = "mirror_done"
    /\ batch.kind = "ini"
    /\ mirror.kind # "none"
    /\ UNCHANGED <<pathVars, url, filename, expected_hash, max_retries, civitaiName, writers,
                   attempt, fname, filepath, downloaded_path, exc, status, file_path, hist,
                   worldVars>>
    /\ pc' = "batch_loop"
    /\ mirror' = NoMirror
    /\ batch' = Counted(batch,
                        IF mirror.kind = "hf"
                        THEN IF status.kind \notin MirrorErrors THEN "success"
                             ELSE "failed"
                        ELSE IF file_path # <<>> /\ status.kind \notin MirrorErrors
                        THEN "success" ELSE "failed")

\* The end of the loop: the summary and the return
BatchFinish ==
    /\ pc = "batch_loop"
    /\ batch.kind = "ini"
    /\ batch.idx > Len(batch.config)
    /\ BatchReturns(IF batch.results.failed > 0 THEN "warn_batch" ELSE "ok_batch")
    /\ batch' = [batch EXCEPT !.summary = batch.results]
    /\ UNCHANGED <<pathVars, url, filename, expected_hash, max_retries, civitaiName, mirror, writers,
                   attempt, fname, filepath, downloaded_path, exc, hist, worldVars>>

BatchNext ==
    \/ BatchCall
    \/ BatchSection
    \/ BatchCollect
    \/ BatchCollectMirror
    \/ BatchFinish
    \/ CheckExisting
    \/ Transfer
    \/ DownloadFileExcept
    \/ VerifyDownloaded
    \/ ExceptHandler
    \/ MirrorCall
    \/ MirrorFile
    \/ MirrorCollect
    \/ MirrorFinish
    \/ HfMirrorCall
    \/ HfMirrorFile
    \/ HfTransfer
    \/ HfMirrorFinish

SpecBatch == BatchInit /\ [][BatchNext]_vars

\* ------------------------------------------------------------------ SpecWriters

\* The two save_to_ini calls
Writers == {1, 2}

\* What the two calls are given: files from two different URLs
WriterJobs ==
    {j \in [Writers -> [url : LedgerUrls, filename : LedgerFilenames]] : j[1].url # j[2].url}

\* The ledger before the two calls: none, or one section of an earlier download
EarlierLedgers(plat) ==
    {<<>>, <<RecordedSection(plat, HfQueryUrl, <<"a">>, <<>>, None)>>}

\* Two save_to_ini calls about to run; serialized says whether the callers
\* let one call finish before the other starts. at is how far each call is
\* ("start", "read" after config.read, "done" after config.write), config the
\* ledger each holds in memory, order the calls in the order they wrote.
WritersInit ==
    /\ platform \in Platforms
    /\ subdirectory = <<"a">>
    /\ pathResult = Pending
    /\ url = <<>> /\ filename = <<>> /\ expected_hash = "" /\ max_retries = 0
    /\ civitaiName = None /\ mirror = NoMirror /\ batch = NoBatch
    /\ \E serialized \in BOOLEAN, job \in WriterJobs :
         writers = [kind |-> "race", serialized |-> serialized, job |-> job,
                    at |-> [w \in Writers |-> "start"],
                    config |-> [w \in Writers |-> <<>>], order |-> <<>>]
    /\ pc = "writers" /\ attempt = 0 /\ fname = <<>> /\ filepath = <<>> /\ exc = "none"
    /\ downloaded_path = <<>>
    /\ disk = <<>> /\ dirs = {}
    /\ ini \in EarlierLedgers(platform)
    /\ clock = Len(ini)
    /\ status = NoStatus /\ file_path = <<>>
    /\ hist = [NoHist EXCEPT !.iniAtCall = ini]

\* What a step of a save_to_ini call leaves alone
WritersFrame ==
    /\ pc = "writers"
    /\ writers.kind = "race"
    /\ UNCHANGED <<pathVars, url, filename, expected_hash, max_retries, civitaiName, mirror,
                   batch, callVars, disk, dirs>>

\* Call w may start: always, unless the callers serialize the calls and the
\* other call is between its read and its write
MayStart(w) ==
    writers.serialized => \A o \in Writers \ {w} : writers.at[o] # "read"

\* save_to_ini, lines 117-123: the whole of models.ini is read into memory
ReadLedger(w) ==
    /\ WritersFrame
    /\ writers.at[w] = "start"
    /\ MayStart(w)
    /\ writers' = [writers EXCEPT !.at[w] = "read", !.config[w] = ini]
    /\ UNCHANGED <<ini, clock>>

\* save_to_ini, lines 125-156: the section is set in the ledger held in
\* memory, which then replaces the content of models.ini
WriteLedger(w) ==
    /\ WritersFrame
    /\ writers.at[w] = "read"
    /\ LET job == writers.job[w]
       IN  ini' = SaveToIni(writers.config[w], platform, job.url, subdirectory, job.filename,
                            FilePath(platform, subdirectory, job.filename), "", clock)
    /\ clock' = clock + 1
    /\ writers' = [writers EXCEPT !.at[w] = "done", !.order = Append(@, w)]

WritersNext ==
    \/ \E w \in Writers : ReadLedger(w)
    \/ \E w \in Writers : WriteLedger(w)

SpecWriters == WritersInit /\ [][WritersNext]_vars

\* ------------------------------------------------------------------ SpecVerify

\* Bound: the number of times the file is rewritten
MaxChanges == 2

\* The expected hashes tried: none, and the digests of the contents in either case
VerifyHashes == {"", "ab0", "ab1", "AB1", "ab2", "AB2"}

\* A file (or none) at filepath, and the expected hash handed to verify_hash
VerifyInit ==
    /\ platform \in Platforms
    /\ subdirectory = <<"a">>
    /\ pathResult = Pending
    /\ url = <<>> /\ filename = <<>> /\ max_retries = 0 /\ civitaiName = None
    /\ mirror = NoMirror /\ batch = NoBatch /\ writers = NoWriters
    /\ expected_hash \in VerifyHashes
    /\ pc = "verifier" /\ attempt = 0 /\ fname = <<"m", ".", "b">> /\ exc = "none"
    /\ filepath = FilePath(platform, subdirectory, fname)
    /\ downloaded_path = <<>>
    /\ \E c \in Contents \cup {Partial, "absent"} :
         disk = IF c = "absent" THEN <<>> ELSE filepath :> c
    /\ dirs = {} /\ ini = <<>> /\ clock = 0
    /\ status = NoStatus /\ file_path = <<>>
    /\ hist = [NoHist EXCEPT !.diskAtCall = disk]

\* What the steps of the verifier leave alone
VerifyFrame ==
    UNCHANGED <<pathVars, argVars, attempt, fname, filepath, downloaded_path, exc, dirs,
                ini, file_path, hist>>

\* The file is rewritten with other content (bytes of it changed)
ChangeFile ==
    /\ pc \in {"verifier", "verified"}
    /\ clock < MaxChanges
    /\ filepath \in DOMAIN disk
    /\ \E c \in (Contents \cup {Partial}) \ {disk[filepath]} :
         disk' = WriteFile(disk, filepath, c)
    /\ clock' = clock + 1
    /\ pc' = "verifier"
    /\ status' = NoStatus
    /\ VerifyFrame

\* The file goes away: opening it fails from now on
LoseFile ==
    /\ pc \in {"verifier", "verified"}
    /\ filepath \in DOMAIN disk
    /\ disk' = Remove(disk, filepath)
    /\ pc' = "verifier"
    /\ status' = NoStatus
    /\ UNCHANGED clock
    /\ VerifyFrame

\* One call of verify_hash(filepath, expected_hash)
VerifyHashCall ==
    /\ pc = "verifier"
    /\ status' = [NoStatus EXCEPT !.kind = VerifyHash(disk, filepath, expected_hash)]
    /\ pc' = "verified"
    /\ UNCHANGED <<disk, clock>>
    /\ VerifyFrame

VerifyNext ==
    \/ ChangeFile
    \/ LoseFile
    \/ VerifyHashCall

SpecVerify == VerifyInit /\ [][VerifyNext]_vars

\* ------------------------------------------------------------------ claims: PathResolver

\* The absolute forms the claim names
PosixAbsolute(s) == StartsWith(s, <<"/">>)
DriveLetterForm(s) == Len(s) >= 2 /\ s[1] \in {"a", "C"} /\ s[2] = ":"

\* C1: normalize_and_validate_path fails with an invalid-path error for every
\* subdirectory that is absolute (POSIX form or drive-letter form) or that
\* contains ".." in its raw or in its normalized form.
C1_RejectsAbsoluteAndTraversal ==
    (/\ pathResult # Pending
     /\ \/ PosixAbsolute(subdirectory)
        \/ DriveLetterForm(subdirectory)
        \/ Contains(subdirectory, DotDot)
        \/ Contains(NormalizedForm(platform, subdirectory), DotDot))
    => (~pathResult.ok /\ pathResult.error \in {"absolute", "drive", "parent"})

\* A traversal that normalization would collapse ("a/..") has been rejected
C1_Witness ==
    /\ pathResult # Pending
    /\ subdirectory = <<"a", "/", ".", ".">>
    /\ pathResult.error = "parent"

\* C2: for every subdirectory normalize_and_validate_path accepts, the models
\* root joined with the returned path is a strict descendant of the root:
\* never the root itself, never a location outside it.
C2_StrictDescendant ==
    (pathResult # Pending /\ pathResult.ok)
    => StrictlyUnderRoot(platform, TargetDir(platform, pathResult.path))

\* ------------------------------------------------------------------ claims: RetryingFetcher

\* The request passes download_model's checks and reaches the retry loop
ValidRequest ==
    /\ DetectUrlType(url) \in {"huggingface", "civitai"}
    /\ NormalizeAndValidatePath(platform, subdirectory).ok

\* The causes a failed download_file call raises with
TransferCauses == {"request_error", "http_error", "write_error"}

\* content c is what expected_hash asks for
Matches(c, expected) == Lower(Sha256(c)) = Lower(expected)

\* Every download_file call of the current download_model call raised
EveryTransferFailed == hist.failed = hist.transfers

\* C3: whatever mix of causes triggers the retries of one download_model call,
\* the number of transfer attempts (download_file calls) never exceeds max_retries.
C3_TransfersBounded == hist.transfers <= max_retries

\* The whole budget was used: transfers raised, a later one completed, and
\* the call ended after max_retries transfers
C3_Witness ==
    /\ pc = "done"
    /\ max_retries = MaxRetries
    /\ hist.transfers = max_retries
    /\ hist.failed >= 1
    /\ hist.failed < hist.transfers

\* A valid file is at the target when the current call starts
ValidFileAtCall ==
    /\ filepath \in DOMAIN hist.diskAtCall
    /\ expected_hash # "" => Matches(hist.diskAtCall[filepath], expected_hash)

\* C4: with max_retries = k >= 1 and a transfer that fails on every attempt, a
\* call that has to fetch (the request reaches the retry loop and no valid
\* file is at the target) makes exactly k transfer attempts and returns an
\* error that names k attempts and the cause of the failed transfer, with an
\* empty file path.
C4_ExactlyKAttempts ==
    (/\ pc = "done" /\ max_retries >= 1 /\ ValidRequest /\ EveryTransferFailed
     /\ ~ValidFileAtCall)
    => /\ hist.transfers = max_retries
       /\ status.kind = "err_download"
       /\ status.attempts = max_retries
       /\ status.cause \in TransferCauses
       /\ file_path = <<>>

\* C5: when a transfer completes and the file does not match the supplied
\* expected hash, download_model deletes the file; it retries if attempts
\* remain, and otherwise returns a hash-verification failure naming the attempt
\* count, with no file left at the target path.
C5_MismatchDeletesAndRetries ==
    (/\ expected_hash # ""
     /\ hist.delivered \in Contents
     /\ ~Matches(hist.delivered, expected_hash)
     /\ pc # "verify")
    => /\ downloaded_path \notin DOMAIN disk
       /\ pc \in {"check", "transfer", "done"}
       /\ pc = "done" => /\ status.kind = "err_hash"
                         /\ status.attempts = max_retries
                         /\ hist.transfers = max_retries
                         /\ file_path = <<>>

\* C6: when download_model starts with a file at the target whose hash does not
\* match the expected hash, and the transfer that follows delivers matching
\* content, the stale file is deleted, exactly one transfer attempt is made and
\* the call returns success.
C6_StaleFileReplaced ==
    (/\ pc = "done"
     /\ max_retries >= 1
     /\ expected_hash # ""
     /\ filepath \in DOMAIN hist.diskAtCall
     /\ ~Matches(hist.diskAtCall[filepath], expected_hash)
     /\ hist.failed = 0
     /\ \A c \in hist.contents : Matches(c, expected_hash))
    => /\ IsSuccess(status)
       /\ hist.transfers = 1
       /\ hist.removed >= 1
       /\ file_path = filepath
       /\ filepath \in DOMAIN disk /\ Matches(disk[filepath], expected_hash)

\* C7: two download_model calls with identical arguments while a valid file is
\* at the target (its hash matches, or no hash was requested) both return the
\* path of that file, the same both times, and neither makes a transfer attempt.
C7_Idempotent ==
    (pc = "done" /\ hist.calls = 2 /\ max_retries >= 1 /\ ValidRequest /\ ValidFileAtCall
     /\ hist.firstTransfers = 0)
    => /\ IsSuccess(hist.first) /\ IsSuccess(status)
       /\ file_path = filepath
       /\ hist.firstPath = file_path
       /\ hist.transfers = 0

\* C8: when download_file fails for any reason (request failure, non-success
\* status, write failure part-way), no file remains at the destination path at
\* the moment the error reaches the caller.
C8_FailedTransferLeavesNoFile ==
    (pc = "except" /\ exc \in TransferCauses) => downloaded_path \notin DOMAIN disk

\* A write failed part-way and its error has reached download_model
C8_Witness ==
    /\ pc = "except"
    /\ exc = "write_error"
    /\ hist.delivered = "failed"
    /\ downloaded_path = filepath

\* The sections of cfg that record url u
SectionsOf(cfg, u) == {i \in 1..Len(cfg) : "url" \in DOMAIN cfg[i].opts /\ cfg[i].opts["url"] = u}

C10_NoDuplicateSource ==
    \A i, j \in 1..Len(ini) :
        (/\ SectionKind(ini[i]) = SectionKind(ini[j])
         /\ SectionSource(ini[i]) = SectionSource(ini[j]))
        => i = j

\* The sections of cfg that record kind and source
Recording(cfg, kind, source) ==
    {i \in 1..Len(cfg) : SectionKind(cfg[i]) = <<kind>> /\ SectionSource(cfg[i]) = source}

\* The fields of the last upsert are what section sec holds
HoldsLatestFields(sec) ==
    LET u == hist.upsert
    IN  /\ sec.opts["timestamp"] = DecimalStr(u.now)
        /\ u.kind = "file"
           => /\ sec.opts["filename"] = u.name
              /\ sec.opts["filepath"] = RelPath(platform, FilePath(platform, subdirectory, u.name))
              /\ IF u.hash = "" THEN "hash" \notin DOMAIN sec.opts
                 ELSE "hash" \in DOMAIN sec.opts /\ sec.opts["hash"] = <<u.hash>>
        /\ u.kind # "file" => sec.opts["file_count"] = DecimalStr(u.count)

\* C11: repeating a ledger upsert for a source the ledger already records (same
\* URL for save_to_ini, same model id for save_hf_directory_to_ini) with updated
\* fields overwrites the one section of that source: the number of sections
\* does not grow and that section holds the latest fields.
C11_RepeatOverwrites ==
    LET u == hist.upsert
    IN  (/\ u.kind \in {"file", "huggingface_directory"}
         /\ Cardinality(Recording(u.before, u.kind, u.source)) = 1)
        => /\ Len(ini) = Len(u.before)
           /\ Recording(ini, u.kind, u.source) = Recording(u.before, u.kind, u.source)
           /\ \A i \in Recording(ini, u.kind, u.source) : HoldsLatestFields(ini[i])

\* base with the numeric suffix n (none for 0)
Suffixed(base, n) == IF n = 0 THEN base ELSE base \o <<"_">> \o DecimalStr(n)

\* Section name exists in cfg and records another source than the last upsert's
RecordsOtherSource(cfg, name) ==
    LET u == hist.upsert
    IN  /\ HasSection(cfg, name)
        /\ ~(HasOption(cfg, name, u.key) /\ Get(cfg, name, u.key) = u.source)

\* C12: when the identifier derived from the entry's name is already used by a
\* section that records a different source, the upsert writes to the identifier
\* with the first numeric suffix 1, 2, ... that is free or names the section of
\* the same source, and no section of another source is overwritten.
C12_CollisionGetsSuffix ==
    LET u == hist.upsert
    IN  (u.kind # "none" /\ RecordsOtherSource(u.before, u.base))
        => \E n \in 1..MaxUpserts :
             /\ \A k \in 0..(n - 1) : RecordsOtherSource(u.before, Suffixed(u.base, k))
             /\ ~RecordsOtherSource(u.before, Suffixed(u.base, n))
             /\ HasSection(ini, Suffixed(u.base, n))
             /\ Get(ini, Suffixed(u.base, n), u.key) = u.source
             /\ Get(ini, Suffixed(u.base, n), "timestamp") = DecimalStr(u.now)
             /\ Len(ini) >= Len(u.before)
             /\ \A i \in 1..Len(u.before) :
                  u.before[i].name # Suffixed(u.base, n) => ini[i] = u.before[i]

\* A third source with the same name: the identifiers base and base_1 are taken
\* by two other URLs and the upsert wrote base_2
C12_Witness ==
    LET u == hist.upsert
    IN  /\ u.kind = "file"
        /\ RecordsOtherSource(u.before, u.base)
        /\ RecordsOtherSource(u.before, Suffixed(u.base, 1))
        /\ ~HasSection(u.before, Suffixed(u.base, 2))
        /\ HasSection(ini, Suffixed(u.base, 2))

\* ------------------------------------------------------------------ claims: Verifier

\* The expected hash is the digest of the file as it was at the start
DigestOfOriginal ==
    /\ filepath \in DOMAIN hist.diskAtCall
    /\ expected_hash = Sha256(hist.diskAtCall[filepath])

\* C13: verify_hash of a file against the digest computed from that same file
\* returns true, and returns false once the content of the file has been changed.
C13_HashRoundTrip ==
    (pc = "verified" /\ DigestOfOriginal /\ filepath \in DOMAIN disk)
    => status.kind = IF disk[filepath] = hist.diskAtCall[filepath] THEN "true" ELSE "false"

\* C14: when an expected hash is supplied and the file cannot be opened,
\* verify_hash returns false and raises nothing.
C14_UnreadableIsFalse ==
    (pc = "verified" /\ expected_hash # "" /\ filepath \notin DOMAIN disk)
    => status.kind = "false"

\* ------------------------------------------------------------------ claims: errors of the RetryingFetcher

\* C15: when the subdirectory is rejected as invalid, download_model returns an
\* error status with an empty path after zero transfer attempts, whatever
\* max_retries is, and creates no directory and writes no ledger entry.
C15_InvalidPathIsFatal ==
    ~NormalizeAndValidatePath(platform, subdirectory).ok
    => /\ pc \in {"idle", "done"}
       /\ pc = "done" => /\ IsError(status)
                         /\ file_path = <<>>
                         /\ hist.transfers = 0
                         /\ hist.saves = 0
                         /\ dirs = {}
                         /\ disk = hist.diskAtCall
                         /\ ini = hist.iniAtCall

\* A supported URL with a subdirectory that holds "..", and the largest
\* max_retries: the call returned the path error
C15_Witness ==
    /\ pc = "done"
    /\ status.kind = "err_invalid_path"
    /\ max_retries = MaxRetries
    /\ hist.transfers = 0

\* ------------------------------------------------------------------ claims: results of the PathResolver

\* The subdirectory is empty or holds nothing but whitespace
OnlyWhitespace(s) == \A i \in 1..Len(s) : s[i] = " "

\* A normalized path with an empty segment: two separators in a row
EmptySegment(n) == Contains(n, <<"/", "/">>)

\* C16 as stated: normalize_and_validate_path fails with an invalid-path error
\* whenever normalizing a subdirectory that is not empty or whitespace-only
\* yields an empty path or a path that has an empty segment.
C16_Original ==
    (/\ pathResult # Pending
     /\ ~OnlyWhitespace(subdirectory)
     /\ \/ NormalizedForm(platform, subdirectory) = <<>>
        \/ EmptySegment(NormalizedForm(platform, subdirectory)))
    => ~pathResult.ok

\* C16 amended: it fails whenever the normalized path has an empty segment;
\* when normalization yields the empty path it fails only for an input that is
\* absolute, has a drive colon or holds "..", and otherwise returns the default
\* segment.
C16_EmptySegmentRejected ==
    LET n == NormalizedForm(platform, subdirectory)
    IN  (pathResult # Pending /\ ~OnlyWhitespace(subdirectory))
        => /\ EmptySegment(n) => ~pathResult.ok
           /\ n = <<>> => \/ pathResult = Accept(Checkpoints)
                          \/ /\ ~pathResult.ok
                             /\ pathResult.error \in {"absolute", "drive", "parent"}

\* A relative path whose only defect is the empty segment was rejected for it
C16_Witness ==
    /\ pathResult # Pending
    /\ EmptySegment(NormalizedForm(platform, subdirectory))
    /\ pathResult.error = "empty_part"

\* C17: an empty or whitespace-only subdirectory is not an error:
\* normalize_and_validate_path resolves it to the default segment 'checkpoints'.
C17_BlankIsDefault ==
    (pathResult # Pending /\ OnlyWhitespace(subdirectory))
    => pathResult = Accept(Checkpoints)

\* A subdirectory of two spaces resolved to the default segment
C17_Witness ==
    /\ subdirectory = <<" ", " ">>
    /\ pathResult = Accept(Checkpoints)

\* ------------------------------------------------------------------ claims: DirectoryMirror

\* The files of the repository below directory dir, at any depth
FilesUnder(tree, dir) == {p \in tree : dir = <<>> \/ StartsWith(p, dir \o <<"/">>)}

\* The directory a directory download enumerates
ListedDirectory ==
    IF mirror.kind = "url" THEN ParseHuggingfaceDirectoryUrl(mirror.url).directory_path
    ELSE <<>>

\* get_directory_files was called and has returned
Enumerated == mirror.kind # "none" /\ mirror.requests # {}

\* The paths get_directory_files returned
ListedPaths == {mirror.all_files[i].path : i \in 1..Len(mirror.all_files)}

\* C20: when none of the tree requests fails on the remote side,
\* get_directory_files returns exactly the files of the repository below the
\* requested directory, at any depth, each once, and no directory entry.
C20_ListsWholeSubtree ==
    (Enumerated /\ mirror.requests \cap mirror.broken = {}) =>
        /\ ListedPaths = FilesUnder(mirror.tree, ListedDirectory)
        /\ Len(mirror.all_files) = Cardinality(ListedPaths)
        /\ \A i \in 1..Len(mirror.all_files) : mirror.all_files[i].type = "file"

\* C19: a directory download during whose enumeration a tree request failed,
\* for the requested directory or for one nested in it, returns an error and
\* has made no transfer.
C19_ListingFailureAborts ==
    (pc = "mirror_done" /\ Enumerated /\ mirror.requests \cap mirror.broken # {}) =>
        /\ status.kind \in MirrorErrors
        /\ hist.transfers = 0

\* Where the directory download in progress puts file f of the repository
DestinationOf(f) ==
    IF mirror.kind = "url"
    THEN MirrorTarget(platform, mirror.subdirectory, ListedDirectory, f)
    ELSE HfTargetFilepath(platform, SavePath(platform, mirror.model_id, mirror.save_folder),
                          f)

\* The destination of file f is rejected by normalize_and_validate_path
InvalidDestination(f) ==
    /\ mirror.kind = "url"
    /\ ~NormalizeAndValidatePath(platform,
            FileSubdirectory(platform, mirror.subdirectory, ListedDirectory, f)).ok

\* File f ended without a file at its destination: its path was invalid, or
\* each of the max_retries >= 1 transfers made for it failed
EndedInFailure(f) ==
    \/ InvalidDestination(f)
    \/ max_retries >= 1 /\ DestinationOf(f) \notin DOMAIN disk

InSeq(x, q) == \E i \in 1..Len(q) : q[i] = x

\* C18: when a directory download returns from its loop, the loop body has run
\* for every non-excluded file in order, whatever happened to the files before
\* it, and every file that ended in failure (invalid destination path, every
\* transfer failed) is in the list of failed files reported with the warning
\* status.
C18_FailureDoesNotStopMirror ==
    (pc = "mirror_done" /\ mirror.files # <<>>) =>
        /\ mirror.visited = PathsOf(mirror.files)
        /\ \A i \in 1..Len(mirror.files) :
             EndedInFailure(mirror.files[i].path) =>
                 /\ InSeq(mirror.files[i].path, mirror.failed_files)
                 /\ status.kind = "warn_mirror"

\* A directory download has returned, the first of its two files failed in
\* every transfer and the second one was downloaded after that
C18_Witness ==
    /\ pc = "mirror_done"
    /\ Len(mirror.files) = 2
    /\ max_retries = MaxMirrorRetries
    /\ mirror.failed_files = <<mirror.files[1].path>>
    /\ Len(mirror.downloaded_files) = 1
    /\ hist.failed = max_retries
    /\ DestinationOf(mirror.files[2].path) \in DOMAIN disk
    /\ DestinationOf(mirror.files[1].path) \notin DOMAIN disk

\* ------------------------------------------------------------------ claims: exclusion

\* The base name of repository file f is in the parsed exclude list
Excluded(f) == Basename("posix", f) \in ExcludeList(mirror.exclude_files)

\* The URL a directory download fetches repository file f from
UrlOfFile(f) ==
    IF mirror.kind = "url"
    THEN FileUrl(ParseHuggingfaceDirectoryUrl(mirror.url).repo_id,
                 ParseHuggingfaceDirectoryUrl(mirror.url).revision, f)
    ELSE FileUrl(Strip(mirror.model_id), RevisionOf(mirror.revision), f)

\* The directory download has returned from the end of its loop
MirrorCompleted == pc = "mirror_done" /\ status.kind \in {"ok_mirror", "warn_mirror"}

ExistedAtCall(f) == ~InvalidDestination(f) /\ DestinationOf(f) \in DOMAIN hist.diskAtCall

\* C22: a directory download never sends a file request for a file whose
\* destination existed; when it returns from its loop each such non-excluded
\* file is in the skipped list, the skipped count is their number, and a
\* request was sent (max_retries >= 1) for every other non-excluded file that
\* has a valid destination.
C22_ExistingFilesSkipped ==
    (mirror.kind # "none") =>
        /\ \A f \in mirror.tree : ExistedAtCall(f) => UrlOfFile(f) \notin hist.urls
        /\ MirrorCompleted =>
             /\ \A i \in 1..Len(mirror.files) :
                  LET f == mirror.files[i].path
                  IN  /\ ExistedAtCall(f) => InSeq(f, mirror.skipped_files)
                      /\ (~ExistedAtCall(f) /\ ~InvalidDestination(f) /\ max_retries >= 1)
                            => UrlOfFile(f) \in hist.urls
             /\ mirror.summary.skipped =
                  Cardinality({i \in 1..Len(mirror.files) :
                                 ExistedAtCall(mirror.files[i].path)})

\* A directory download of two files has returned: the first one was there
\* and was skipped, the second one was fetched
C22_Witness ==
    /\ MirrorCompleted
    /\ Len(mirror.files) = 2
    /\ ExistedAtCall(mirror.files[1].path)
    /\ mirror.skipped_files = <<mirror.files[1].path>>
    /\ hist.urls = {UrlOfFile(mirror.files[2].path)}
    /\ mirror.summary.skipped = 1

\* ------------------------------------------------------------------ claims: placement

\* <rel>/<name>: the path of repository file f below the directory directory_path
BelowDirectory(directory_path, f) ==
    IF directory_path = <<>> THEN f ELSE SubSeq(f, Len(directory_path) + 2, Len(f))

\* <models root>/<normalized subdirectory>/<rel>/<name> for repository file f
PlaceUnderRoot(plat, subdir, directory_path, f) ==
    JoinAll(plat, TargetDir(plat, NormalizeAndValidatePath(plat, subdir).path),
            Split(BelowDirectory(directory_path, f), "/"))

\* Repository file f was fetched by the directory download and did not fail
Fetched(f) == UrlOfFile(f) \in hist.urls /\ ~InSeq(f, mirror.failed_files)

\* C23: when ModelDownloader.download_directory, called with a subdirectory
\* that normalize_and_validate_path accepts, returns from its loop, every file
\* it fetched is at <models root>/<normalized subdirectory>/<rel>/<name>.
C23_StructurePreserved ==
    (MirrorCompleted /\ mirror.kind = "url"
       /\ NormalizeAndValidatePath(platform, mirror.subdirectory).ok) =>
        \A i \in 1..Len(mirror.files) :
            Fetched(mirror.files[i].path) =>
                \E p \in DOMAIN disk :
                    Location(platform, p) =
                        Location(platform, PlaceUnderRoot(platform, mirror.subdirectory,
                                                          ListedDirectory,
                                                          mirror.files[i].path))

\* ------------------------------------------------------------------ claims: directory sections

\* The directory-kind sections of a ledger
DirectorySections(cfg) ==
    {cfg[i] : i \in {j \in 1..Len(cfg) :
                       SectionKind(cfg[j]) \in {<<"directory">>, <<"huggingface_directory">>}}}

\* The source, the destination and the file count a directory download would
\* record, and the option that holds the destination
MirrorSource == IF mirror.kind = "url" THEN IniValue(mirror.url) ELSE Strip(mirror.model_id)
MirrorDestination ==
    IF mirror.kind = "url" THEN IniValue(mirror.subdirectory) ELSE Strip(mirror.save_folder)
DestinationOption == IF mirror.kind = "url" THEN "subdirectory" ELSE "save_folder"
MirrorFileCount == Len(mirror.downloaded_files) + Len(mirror.skipped_files)

\* The ledger cfg has a directory-kind section for the source of the directory
\* download that records its file count and its destination
RecordedUnchanged(cfg) ==
    \E sec \in DirectorySections(cfg) :
        /\ SectionSource(sec) = MirrorSource
        /\ sec.opts["file_count"] = DecimalStr(MirrorFileCount)
        /\ sec.opts[DestinationOption] = MirrorDestination

\* C24: a directory download that has returned from its loop has written a
\* directory-kind section only if the ledger it started with had no section
\* for its source, or one with another file count or destination.
C24_DirectorySectionOnlyOnChange ==
    (MirrorCompleted /\ DirectorySections(ini) # DirectorySections(hist.iniAtCall)) =>
        ~RecordedUnchanged(hist.iniAtCall)

\* ------------------------------------------------------------- download_from_ini

\* download_from_ini went through the sections of a ledger and returned
BatchCompleted ==
    pc = "batch_done" /\ batch.kind = "ini" /\ status.kind \in {"ok_batch", "warn_batch"}

\* The names of the sections processed so far, one after the other
Processed == [i \in 1..Len(batch.log) |-> batch.log[i].name]

\* The names of the sections of the ledger that was read
SectionNames(cfg) == [i \in 1..Len(cfg) |-> cfg[i].name]

\* The number of sections processed with the given outcome
CountOf(outcome) == Cardinality({i \in 1..Len(batch.log) : batch.log[i].outcome = outcome})

\* C25: no error in one section aborts download_from_ini: no exception leaves
\* it, the sections are processed in ledger order, and once it returned every
\* section of the ledger has been processed and every failure is in the
\* failed count.
C25_SectionErrorNeverAborts ==
    batch.kind = "ini" =>
        /\ pc # "batch_raised"
        /\ Processed = SubSeq(SectionNames(batch.config), 1, Len(batch.log))
        /\ BatchCompleted =>
             /\ Processed = SectionNames(batch.config)
             /\ batch.summary.failed = CountOf("failed")

\* Section i of the ledger read is a file-kind section that records a target
\* file, and that file was under the models root when the section's turn came
TargetPresent(i) ==
    LET sec == batch.config[i]
    IN  /\ SectionKind(sec) = <<"file">>
        /\ "url" \in DOMAIN sec.opts
        /\ "filepath" \in DOMAIN sec.opts
        /\ \E q \in batch.log[i].disk :
             Location(platform, q) = Location(platform, RecordedTarget(platform, sec))

\* C26: with skip_existing, a file-kind section whose recorded target file
\* exists under the models root is counted as skipped, and no transfer is
\* attempted and no ledger write made for it.
C26_ExistingTargetSkipped ==
    (batch.kind = "ini" /\ batch.skip_existing) =>
        \A i \in 1..Len(batch.log) :
            TargetPresent(i) =>
                /\ batch.log[i].outcome = "skipped"
                /\ batch.log[i].transfers = 0
                /\ batch.log[i].saves = 0

\* success + skipped + failed of a results record
Accounted(r) == r.success + r.skipped + r.failed

\* C27: the report download_from_ini returns after going through a ledger
\* states total, success, skipped and failed; each section processed has
\* incremented exactly one of success, skipped and failed, so that their sum
\* is the total, the number of sections of the ledger.
C27_CountsAddUp ==
    /\ (batch.kind = "ini" /\ pc \notin {"batch_start", "batch_done"}) =>
          /\ Accounted(batch.results) = Len(batch.log)
          /\ \A o \in {"success", "skipped", "failed"} : batch.results[o] = CountOf(o)
    /\ BatchCompleted =>
          /\ batch.summary = batch.results
          /\ batch.summary.total = Len(batch.iniAtRun)
          /\ Accounted(batch.summary) = batch.summary.total
          /\ \A o \in {"success", "skipped", "failed"} : batch.summary[o] = CountOf(o)

C27_Witness ==
    /\ BatchCompleted
    /\ batch.summary.total = 2
    /\ batch.summary.skipped = 1
    /\ batch.summary.failed = 1

\* The ledgers download_model calls leave behind: one recorded file, two of
\* different names, two of the same name
RecordedLedgers(plat) ==
    LET hf == RecordedSection(plat, HfUrl, <<"a">>, <<>>, None)
        civitai == RecordedSection(plat, CivitaiUrl, <<>>, <<"x", ".", "b">>, None)
    IN  {<<hf>>, <<civitai>>, <<hf, civitai>>, RecordedTwice(plat)}

\* The sections of a ledger with their source and destination fields
Provenance(cfg) ==
    [i \in 1..Len(cfg) |->
        [name |-> cfg[i].name,
         fields |-> [k \in DOMAIN cfg[i].opts \cap {"url", "subdirectory", "filename",
                                                   "filepath"} |-> cfg[i].opts[k]]]]

\* The first run started on a ledger that download_model calls recorded, with
\* every recorded file present under the models root
Reconciled ==
    /\ batch.kind = "ini"
    /\ batch.runs >= 1
    /\ batch.iniAtFirst \in RecordedLedgers(platform)
    /\ \A i \in 1..Len(batch.iniAtFirst) :
         \E q \in batch.diskAtFirst :
            Location(platform, q)
              = Location(platform, RecordedTarget(platform, batch.iniAtFirst[i]))

\* C28: download_from_ini on a ledger that download_model calls recorded,
\* with all recorded files present, attempts no transfer and leaves the
\* sections of the ledger and their source and destination fields as they
\* were; a second run returns the counts of the first.
C28_ReconciliationIdempotent ==
    Reconciled =>
        /\ hist.transfers = 0
        /\ Provenance(ini) = Provenance(batch.iniAtFirst)
        /\ (BatchCompleted /\ batch.runs >= 2) => batch.summary = batch.first

C28_Witness ==
    /\ Reconciled
    /\ BatchCompleted
    /\ batch.runs = 2
    /\ batch.iniAtFirst = RecordedTwice(platform)
    /\ batch.summary.success = 2
    /\ ini # batch.iniAtFirst

\* ------------------------------------------------------- the resolve URL scenario

\* <path> of a URL ".../resolve/<revision>/<path>", its query string removed
PathOfResolveUrl(u) ==
    LET at == CHOOSE i \in 1..Len(u) : u[i] = "resolve" /\ \A j \in 1..(i - 1) : u[j] # "resolve"
        rest == SubSeq(u, at + 4, Len(u))
    IN  SubSeq(rest, 1, FirstAt(rest, "?", 1) - 1)

\* What follows the last "/" of a path
AfterLastSlash(path) ==
    LET slashes == {i \in 1..Len(path) : path[i] = "/"}
    IN  IF slashes = {} THEN path
        ELSE SubSeq(path, (CHOOSE i \in slashes : \A j \in slashes : j <= i) + 1, Len(path))

\* download_model returned from a call with a HuggingFace resolve URL, no
\* filename and no hash, whose first transfer succeeded
ResolveScenario ==
    /\ pc = "done" /\ mirror.kind = "none" /\ batch.kind = "none"
    /\ DetectUrlType(url) = "huggingface"
    /\ \E i \in 1..Len(url) : url[i] = "resolve"
    /\ filename = <<>> /\ expected_hash = ""
    /\ hist.transfers >= 1 /\ hist.failed = 0

\* The sections of a ledger that record a file from the source u
FileSectionsFor(cfg, u) ==
    {i \in 1..Len(cfg) : SectionKind(cfg[i]) = <<"file">> /\ SectionSource(cfg[i]) = u}

\* C29: with no filename and no hash, a HuggingFace URL
\* .../resolve/<revision>/<path> gives the last segment of <path>, without the
\* query string, as filename and <models root>/<normalized subdirectory>/
\* <filename> as target; when the first transfer succeeds exactly one attempt
\* is made and the ledger, when models.ini can be written, gains one
\* file-kind section for the URL.
C29_ResolveUrlScenario ==
    ResolveScenario =>
        /\ fname = AfterLastSlash(PathOfResolveUrl(url))
        /\ file_path = OsPathJoin(platform,
                                  OsPathJoin(platform, BasePath(platform),
                                             NormalizeAndValidatePath(platform,
                                                                      subdirectory).path),
                                  fname)
        /\ file_path \in DOMAIN disk
        /\ hist.transfers = 1
        /\ "OSError" \notin hist.unsaved =>
              /\ Len(ini) = Len(hist.iniAtCall) + 1
              /\ FileSectionsFor(hist.iniAtCall, url) = {}
              /\ FileSectionsFor(ini, url) = {Len(ini)}

\* ----------------------------------------------------------- concurrent upserts

\* Both save_to_ini calls have written
BothWrote == writers.kind = "race" /\ \A w \in Writers : writers.at[w] = "done"

\* The ledger holds a section for the source of call w
Kept(w) == \E i \in 1..Len(ini) : SectionSource(ini[i]) = writers.job[w].url

\* C30: an upsert reads the whole ledger, changes it in memory and rewrites
\* the whole file. When two upserts for different sources are serialized the
\* ledger holds both entries afterwards; when they are not, it holds the
\* entry of the call that wrote last, and lacks the other's only when that
\* call had read the ledger before the other wrote (C30_Witness is such an
\* interleaving).
C30_SerializedUpsertsKeepBoth ==
    BothWrote =>
        /\ Kept(writers.order[2])
        /\ writers.serialized => \A w \in Writers : Kept(w)
        /\ Provenance(SubSeq(ini, 1, Len(hist.iniAtCall))) = Provenance(hist.iniAtCall)

C30_Witness ==
    /\ BothWrote
    /\ ~writers.serialized
    /\ \E w \in Writers : ~Kept(w)

\* ------------------------------------------------------- reported files and hash

\* The file at path holds content whose digest is the expected hash, compared
\* without regard to case
DigestMatches(dsk, path, expected) ==
    path \in DOMAIN dsk /\ Lower(Sha256(dsk[path])) = Lower(expected)

\* download_model returned from a call that was given an expected hash
ReturnedWithHash ==
    pc = "done" /\ mirror.kind = "none" /\ batch.kind = "none" /\ expected_hash # ""

WroteTarget == hist.transfers > 0 /\ filepath \in DOMAIN disk
C32_TargetUnderRoot ==
    (pc = "done" /\ mirror.kind = "none" /\ batch.kind = "none") =>
        /\ file_path # <<>> => StrictlyUnderRoot(platform, file_path)
        /\ WroteTarget => StrictlyUnderRoot(platform, filepath)

\* C33: every directory created and every file written by
\* HuggingFaceDirectoryDownloader.download_directory lies under the models
\* root, for every save_folder, model_id and remote file path.
WrittenSinceCall == (DOMAIN disk) \ (DOMAIN hist.diskAtCall)
C33_HfMirrorUnderRoot ==
    mirror.kind = "hf" =>
        /\ \A d \in dirs : StrictlyUnderRoot(platform, d)
        /\ \A p \in WrittenSinceCall : StrictlyUnderRoot(platform, p)

\* C34: a provider's bearer token is attached only to requests sent to that
\* provider's own host, and a URL whose host is neither provider is rejected
\* as unsupported without any request being made.  Stated for every set of
\* keys config.ini may hold, over the requests download_file made.
HostOf(u) ==
    IF Len(u) >= 2 /\ u[1] \in {"https://", "http://"}
    THEN SubSeq(u, 2, FirstAt(u, "/", 2) - 1)
    ELSE <<>>
OwnHost(key) == IF key = "huggingface_token" THEN <<HfHost>> ELSE <<CivitaiHost>>
C34_TokenOnlyToOwnHost ==
    (mirror.kind = "none" /\ batch.kind = "none") =>
        /\ \A config \in SUBSET ApiKeys : \A requested \in hist.urls :
              LET sent == Authorization(DetectUrlType(requested), config)
              IN  sent \in ApiKeys => HostOf(requested) = OwnHost(sent)
        /\ (pc = "done" /\ url # <<>> /\ HostOf(url) \notin {<<HfHost>>, <<CivitaiHost>>})
               => status.kind = "err_unsupported" /\ hist.urls = {}

\* C35: download_from_ini counts a huggingface_directory section as success
\* only when every non-excluded file of the repository was downloaded or
\* already present, and as failed when at least one file of the mirror
\* failed.  Stated on the step that counts the section after its mirror
\* has returned.
HfSectionCounted ==
    /\ pc = "mirror_done" /\ batch.kind = "ini" /\ mirror.kind = "hf"
    /\ pc' = "batch_loop"
EveryFileObtained ==
    \A i \in 1..Len(mirror.files) :
        \/ InSeq(mirror.files[i].path, mirror.downloaded_files)
        \/ InSeq(mirror.files[i].path, mirror.skipped_files)
C35_HfSectionSuccessIsComplete ==
    [][HfSectionCounted =>
         /\ batch'.results.success = batch.results.success + 1
               => mirror.files # <<>> /\ EveryFileObtained
         /\ mirror.failed_files # <<>>
               => batch'.results.failed = batch.results.failed + 1]_vars

\* How many of the three result lists hold repository file f: the downloaded
\* list of ModelDownloader.download_directory holds the local paths
\* download_model returned, the other lists hold paths of the repository
ListedAsDownloaded(f) ==
    IF mirror.kind = "url"
    THEN ~InvalidDestination(f) /\ InSeq(DestinationOf(f), mirror.downloaded_files)
    ELSE InSeq(f, mirror.downloaded_files)
ListsHolding(f) ==
    (IF ListedAsDownloaded(f) THEN 1 ELSE 0)
    + (IF InSeq(f, mirror.skipped_files) THEN 1 ELSE 0)
    + (IF InSeq(f, mirror.failed_files) THEN 1 ELSE 0)

SectionOfUpsert == PickSection(hist.upsert.before, hist.upsert.base, 0, "url", hist.upsert.source)
UpdatedExistingSection ==
    hist.upsert.kind = "file" /\ HasSection(hist.upsert.before, SectionOfUpsert)

\* C37: after save_to_ini updates the existing section of a URL, the section's
\* hash key reflects the latest call only: it holds the newly supplied
\* expected hash, and it is absent when the latest call supplied none.
C37_HashReflectsLatestCall ==
    UpdatedExistingSection =>
        IF hist.upsert.hash # ""
        THEN /\ HasOption(ini, SectionOfUpsert, "hash")
             /\ Get(ini, SectionOfUpsert, "hash") = <<hist.upsert.hash>>
        ELSE ~HasOption(ini, SectionOfUpsert, "hash")

\* The sections of models.ini that the last upsert added or changed
TouchedByUpsert ==
    {i \in 1..Len(ini) : i > Len(hist.upsert.before) \/ ini[i] # hist.upsert.before[i]}

\* C38: each ledger upsert (save_to_ini, save_directory_to_ini,
\* save_hf_directory_to_ini) creates or changes at most one section; every
\* other section already in the ledger keeps its identifier and all of its
\* key-value pairs after the whole-file rewrite.
C38_UpsertTouchesOneSection ==
    hist.upsert.kind # "none" =>
        /\ Len(ini) >= Len(hist.upsert.before)
        /\ \A i \in 1..Len(hist.upsert.before) : ini[i].name = hist.upsert.before[i].name
        /\ Cardinality(TouchedByUpsert) <= 1
        /\ \A i \in (1..Len(hist.upsert.before)) \ TouchedByUpsert :
              ini[i] = hist.upsert.before[i]

\* The ledger held a file section and a directory section, and the last
\* upsert rewrote the file section: the directory section is as it was
C38_Witness ==
    /\ hist.upsert.kind = "file"
    /\ Len(hist.upsert.before) = 2
    /\ Len(ini) = 2
    /\ TouchedByUpsert = {1}
    /\ ini[1].opts["timestamp"] # hist.upsert.before[1].opts["timestamp"]
    /\ "type" \in DOMAIN ini[2].opts
    /\ ini[2] = hist.upsert.before[2]


====
